---- MODULE Spec2Model ----
(***************************************************************************)
(* Model of cc-notify's configuration hook installer: the TOML notify      *)
(* patcher (internal/config/config.go), the JSON hook patcher              *)
(* (internal/config/claude.go) and the install/uninstall commands of       *)
(* internal/app/app.go that read a config file, call a patcher and write   *)
(* the file back.                                                          *)
(*                                                                         *)
(* Text is a sequence of one-character strings.  The three bytes of the    *)
(* UTF-8 byte-order mark are the single symbol BOM.                        *)
(***************************************************************************)
EXTENDS Integers, Sequences, FiniteSets, TLC

VARIABLES
    tool,   \* whose configuration doc is: "codex" (TOML) or "claude" (JSON settings)
    doc,    \* the configuration text the patcher is applied to
    last,   \* the most recent patcher call: function, argument and results
    prev,   \* the call before it
    file,    \* the config file of each tool: whether it exists, and its content
    initial, \* the config files as they were before any invocation ran
    proc,    \* the running install and uninstall invocations
    now,       \* time.Now().Unix()
    pending,   \* the pending approval files, by approval id
    delivered, \* the calls of the approval executor's Deliver, in order
    resp,      \* the running respond invocations
    notifier   \* the notifier's mode and what its last Notify did

patchVars == <<tool, doc, last, prev>>

installVars == <<file, initial, proc>>

respondVars == <<now, pending, delivered, resp, notifier>>

vars == <<patchVars, installVars, respondVars>>

----------------------------------------------------------------------------
(* Characters *)

LF == "\n"
CR == "\r"
TAB == "\t"
SP == " "
QUOTE == "\""
BSLASH == "\\"
BOM == "BOM"
CRLF == <<CR, LF>>

(* The key literal compared in isNotifyAssignmentStart. *)
NotifyKey == <<"n", "o", "t", "i", "f", "y">>

----------------------------------------------------------------------------
(* Go's strings package, on sequences of characters *)

Min(S) == CHOOSE x \in S : \A y \in S : x <= y

HasPrefix(s, p) == Len(s) >= Len(p) /\ SubSeq(s, 1, Len(p)) = p

HasSuffix(s, p) == Len(s) >= Len(p) /\ SubSeq(s, Len(s) - Len(p) + 1, Len(s)) = p

Contains(s, sub) ==
    \E i \in 0..(Len(s) - Len(sub)) : SubSeq(s, i + 1, i + Len(sub)) = sub

(* unicode.IsSpace restricted to the characters of the model *)
IsSpace(c) == c \in {SP, TAB, LF, CR}

TrimLeft(s, cutset) ==
    LET keep == {i \in 1..Len(s) : s[i] \notin cutset}
    IN  IF keep = {} THEN <<>> ELSE SubSeq(s, Min(keep), Len(s))

TrimSpace(s) ==
    LET n == Len(s)
        fromLeft == {i \in 1..n : ~IsSpace(s[i])}
        fromRight == {k \in 0..(n - 1) : ~IsSpace(s[n - k])}
    IN  IF fromLeft = {} THEN <<>> ELSE SubSeq(s, Min(fromLeft), n - Min(fromRight))

TrimSuffix(s, p) == IF HasSuffix(s, p) THEN SubSeq(s, 1, Len(s) - Len(p)) ELSE s

(* Leftmost, non-overlapping replacement of a non-empty old *)
RECURSIVE ReplaceAll(_, _, _)
ReplaceAll(s, old, new) ==
    LET hits == {i \in 1..(Len(s) - Len(old) + 1) : SubSeq(s, i, i + Len(old) - 1) = old}
    IN  IF hits = {} THEN s
        ELSE SubSeq(s, 1, Min(hits) - 1) \o new
                 \o ReplaceAll(SubSeq(s, Min(hits) + Len(old), Len(s)), old, new)

(* strings.Split(s, sep) for a one-character separator *)
RECURSIVE Split(_, _)
Split(s, sep) ==
    LET at == {i \in 1..Len(s) : s[i] = sep}
    IN  IF at = {} THEN <<s>>
        ELSE <<SubSeq(s, 1, Min(at) - 1)>> \o Split(SubSeq(s, Min(at) + 1, Len(s)), sep)

RECURSIVE Join(_, _)
Join(elems, sep) ==
    IF Len(elems) = 0 THEN <<>>
    ELSE IF Len(elems) = 1 THEN elems[1]
    ELSE elems[1] \o sep \o Join(Tail(elems), sep)

----------------------------------------------------------------------------
(* Scanner helpers of the TOML patcher *)

(* stripBOM losing the mark instead of handing it back *)
stripBOM_Dropped(content) ==
    IF HasPrefix(content, <<BOM>>)
    THEN [bom |-> <<>>, content |-> SubSeq(content, 2, Len(content))]
    ELSE [bom |-> <<>>, content |-> content]

stripBOM(content) ==
    IF HasPrefix(content, <<BOM>>)
    THEN [bom |-> <<BOM>>, content |-> SubSeq(content, 2, Len(content))]
    ELSE [bom |-> <<>>, content |-> content]

detectNewline(content) == IF Contains(content, CRLF) THEN CRLF ELSE <<LF>>

splitLines(content) ==
    LET normalized == TrimSuffix(ReplaceAll(content, CRLF, <<LF>>), <<LF>>)
    IN  IF normalized = <<>> THEN <<>> ELSE Split(normalized, LF)

(* joinLines with LF whatever the detected terminator is *)
joinLines_AlwaysLF(lines, newline) ==
    IF Len(lines) = 0 THEN <<>> ELSE Join(lines, <<LF>>) \o <<LF>>

joinLines(lines, newline) ==
    IF Len(lines) = 0 THEN <<>> ELSE Join(lines, newline) \o newline

firstTableIndex(lines) ==
    LET isTable(i) == LET trimmed == TrimSpace(lines[i])
                      IN  /\ trimmed # <<>>
                          /\ ~HasPrefix(trimmed, <<"#">>)
                          /\ HasPrefix(trimmed, <<"[">>)
        tables == {i \in 1..Len(lines) : isTable(i)}
    IN  IF tables = {} THEN Len(lines) ELSE Min(tables) - 1

----------------------------------------------------------------------------
(* Assignment state tracker *)

assignmentState == [inString |-> FALSE, escape |-> FALSE, bracketDepth |-> 0]

(* scan taking # for an ordinary character everywhere *)
RECURSIVE scanFrom_NoComment(_, _, _)
scanFrom_NoComment(s, line, i) ==
    IF i > Len(line) THEN s
    ELSE LET ch == line[i]
         IN  IF s.inString
             THEN IF s.escape
                  THEN scanFrom_NoComment([s EXCEPT !.escape = FALSE], line, i + 1)
                  ELSE IF ch = BSLASH
                       THEN scanFrom_NoComment([s EXCEPT !.escape = TRUE], line, i + 1)
                       ELSE IF ch = QUOTE
                            THEN scanFrom_NoComment([s EXCEPT !.inString = FALSE], line, i + 1)
                            ELSE scanFrom_NoComment(s, line, i + 1)
             ELSE IF ch = QUOTE
                  THEN scanFrom_NoComment([s EXCEPT !.inString = TRUE], line, i + 1)
                  ELSE IF ch = "["
                       THEN scanFrom_NoComment([s EXCEPT !.bracketDepth = @ + 1], line, i + 1)
                       ELSE IF ch = "]"
                            THEN scanFrom_NoComment([s EXCEPT !.bracketDepth =
                                                         IF @ > 0 THEN @ - 1 ELSE @],
                                                    line, i + 1)
                            ELSE scanFrom_NoComment(s, line, i + 1)

(* scan decrementing the bracket depth at every ] *)
RECURSIVE scanFrom_Unclamped(_, _, _)
scanFrom_Unclamped(s, line, i) ==
    IF i > Len(line) THEN s
    ELSE LET ch == line[i]
         IN  IF s.inString
             THEN IF s.escape
                  THEN scanFrom_Unclamped([s EXCEPT !.escape = FALSE], line, i + 1)
                  ELSE IF ch = BSLASH
                       THEN scanFrom_Unclamped([s EXCEPT !.escape = TRUE], line, i + 1)
                       ELSE IF ch = QUOTE
                            THEN scanFrom_Unclamped([s EXCEPT !.inString = FALSE], line, i + 1)
                            ELSE scanFrom_Unclamped(s, line, i + 1)
             ELSE IF ch = QUOTE
                  THEN scanFrom_Unclamped([s EXCEPT !.inString = TRUE], line, i + 1)
                  ELSE IF ch = "#"
                       THEN s
                       ELSE IF ch = "["
                            THEN scanFrom_Unclamped([s EXCEPT !.bracketDepth = @ + 1], line, i + 1)
                            ELSE IF ch = "]"
                                 THEN scanFrom_Unclamped([s EXCEPT !.bracketDepth = @ - 1],
                                                         line, i + 1)
                                 ELSE scanFrom_Unclamped(s, line, i + 1)

RECURSIVE scanFrom(_, _, _)
scanFrom(s, line, i) ==
    IF i > Len(line) THEN s
    ELSE LET ch == line[i]
         IN  IF s.inString
             THEN IF s.escape
                  THEN scanFrom([s EXCEPT !.escape = FALSE], line, i + 1)
                  ELSE IF ch = BSLASH
                       THEN scanFrom([s EXCEPT !.escape = TRUE], line, i + 1)
                       ELSE IF ch = QUOTE
                            THEN scanFrom([s EXCEPT !.inString = FALSE], line, i + 1)
                            ELSE scanFrom(s, line, i + 1)
             ELSE IF ch = QUOTE
                  THEN scanFrom([s EXCEPT !.inString = TRUE], line, i + 1)
                  ELSE IF ch = "#"
                       THEN s
                       ELSE IF ch = "["
                            THEN scanFrom([s EXCEPT !.bracketDepth = @ + 1], line, i + 1)
                            ELSE IF ch = "]"
                                 THEN scanFrom([s EXCEPT !.bracketDepth =
                                                    IF @ > 0 THEN @ - 1 ELSE @],
                                               line, i + 1)
                                 ELSE scanFrom(s, line, i + 1)

scan(s, line) == scanFrom(s, line, 1)

needsContinuation(s) == s.inString \/ s.bracketDepth > 0

----------------------------------------------------------------------------
(* TOML notify patcher *)

(* isNotifyAssignmentStart requiring the = right after the key *)
isNotifyAssignmentStart_NoSpace(line) ==
    LET trimmed == TrimLeft(line, {SP, TAB})
    IN  HasPrefix(trimmed, NotifyKey \o <<"=">>)

isNotifyAssignmentStart(line) ==
    LET trimmed == TrimLeft(line, {SP, TAB})
        stops == {i \in 1..Len(trimmed) : trimmed[i] \in {SP, TAB, "="}}
        keyEnd == IF stops = {} THEN Len(trimmed) ELSE Min(stops) - 1
    IN  IF trimmed = <<>> \/ HasPrefix(trimmed, <<"#">>) THEN FALSE
        ELSE IF keyEnd = 0 \/ SubSeq(trimmed, 1, keyEnd) # NotifyKey THEN FALSE
        ELSE HasPrefix(TrimLeft(SubSeq(trimmed, keyEnd + 1, Len(trimmed)), {SP, TAB}),
                       <<"=">>)

afterEquals(line) ==
    LET at == {i \in 1..Len(line) : line[i] = "="}
    IN  IF at = {} THEN <<>> ELSE SubSeq(line, Min(at) + 1, Len(line))

(* The inner loop of findTopLevelNotify: scan continuation lines while the
   value is open.  end is the 0-based exclusive end, as in the source. *)
RECURSIVE continueScan(_, _, _)
continueScan(rootLines, state, end) ==
    IF needsContinuation(state) /\ end < Len(rootLines)
    THEN continueScan(rootLines, scan(state, rootLines[end + 1]), end + 1)
    ELSE [state |-> state, end |-> end]

(* findTopLevelNotify reporting the assignment found when the root region
   ends with the value still open *)
findTopLevelNotify_Unchecked(rootLines) ==
    LET starts == {i \in 0..(Len(rootLines) - 1) :
                       isNotifyAssignmentStart(rootLines[i + 1])}
    IN  IF starts = {}
        THEN [start |-> 0, end |-> 0, found |-> FALSE, err |-> FALSE]
        ELSE LET i == Min(starts)
                 r == continueScan(rootLines,
                                   scan(assignmentState, afterEquals(rootLines[i + 1])),
                                   i + 1)
             IN  [start |-> i, end |-> r.end, found |-> TRUE, err |-> FALSE]

(* start and end are 0-based; end is exclusive. *)
findTopLevelNotify(rootLines) ==
    LET starts == {i \in 0..(Len(rootLines) - 1) :
                       isNotifyAssignmentStart(rootLines[i + 1])}
    IN  IF starts = {}
        THEN [start |-> 0, end |-> 0, found |-> FALSE, err |-> FALSE]
        ELSE LET i == Min(starts)
                 r == continueScan(rootLines,
                                   scan(assignmentState, afterEquals(rootLines[i + 1])),
                                   i + 1)
             IN  IF needsContinuation(r.state)
                 THEN [start |-> 0, end |-> 0, found |-> FALSE, err |-> TRUE]
                 ELSE [start |-> i, end |-> r.end, found |-> TRUE, err |-> FALSE]

(* quoteTOMLString escaping the backslash only *)
quoteTOMLString_QuoteUnescaped(value) ==
    LET esc(c) == IF c = BSLASH THEN <<BSLASH, BSLASH>> ELSE <<c>>
    IN  <<QUOTE>> \o Join([i \in 1..Len(value) |-> esc(value[i])], <<>>) \o <<QUOTE>>

quoteTOMLString(value) ==
    LET esc(c) == IF c = BSLASH THEN <<BSLASH, BSLASH>>
                  ELSE IF c = QUOTE THEN <<BSLASH, QUOTE>>
                  ELSE IF c = TAB THEN <<BSLASH, "t">>
                  ELSE IF c = LF THEN <<BSLASH, "n">>
                  ELSE IF c = CR THEN <<BSLASH, "r">>
                  ELSE <<c>>
    IN  <<QUOTE>> \o Join([i \in 1..Len(value) |-> esc(value[i])], <<>>) \o <<QUOTE>>

renderNotifyLine(command) ==
    NotifyKey \o <<SP, "=", SP, "[">>
        \o Join([i \in 1..Len(command) |-> quoteTOMLString(command[i])], <<",", SP>>)
        \o <<"]">>

(* trimLeadingBlankLines dropping every blank line, not only the leading ones *)
trimLeadingBlankLines_All(lines) ==
    LET keep == {i \in 1..Len(lines) : TrimSpace(lines[i]) # <<>>}
        RECURSIVE pick(_)
        pick(i) == IF i > Len(lines) THEN <<>>
                   ELSE (IF i \in keep THEN <<lines[i]>> ELSE <<>>) \o pick(i + 1)
    IN  pick(1)

trimLeadingBlankLines(lines) ==
    LET keep == {i \in 1..Len(lines) : TrimSpace(lines[i]) # <<>>}
    IN  IF keep = {} THEN <<>> ELSE SubSeq(lines, Min(keep), Len(lines))

ErrNone == "nil"
ErrEmptyCommand == "notify command cannot be empty"
ErrUnterminated == "unterminated top-level notify assignment"

(* UpsertNotify without the blank line before a leading table header *)
UpsertNotify_NoBlankLine(content0, command) ==
    IF Len(command) = 0
    THEN [content |-> <<>>, changed |-> FALSE, err |-> ErrEmptyCommand]
    ELSE
    LET sb == stripBOM(content0)
        bom == sb.bom
        content == sb.content
        newline == detectNewline(content)
        lines == splitLines(content)
        notifyLine == renderNotifyLine(command)
        firstTable == firstTableIndex(lines)
        f == findTopLevelNotify(SubSeq(lines, 1, firstTable))
    IN  IF Len(lines) = 0
        THEN [content |-> bom \o notifyLine \o newline, changed |-> TRUE, err |-> ErrNone]
        ELSE IF f.err
        THEN [content |-> <<>>, changed |-> FALSE, err |-> ErrUnterminated]
        ELSE IF f.found
        THEN IF f.end - f.start = 1 /\ TrimSpace(lines[f.start + 1]) = notifyLine
             THEN [content |-> bom \o content, changed |-> FALSE, err |-> ErrNone]
             ELSE [content |-> bom \o joinLines(SubSeq(lines, 1, f.start)
                                                  \o <<notifyLine>>
                                                  \o SubSeq(lines, f.end + 1, Len(lines)),
                                                newline),
                   changed |-> TRUE, err |-> ErrNone]
        ELSE [content |-> bom \o joinLines(SubSeq(lines, 1, firstTable)
                                             \o <<notifyLine>>
                                             \o SubSeq(lines, firstTable + 1, Len(lines)),
                                           newline),
              changed |-> TRUE, err |-> ErrNone]

(* UpsertNotify replacing the first line of the assignment only *)
UpsertNotify_FirstLineOnly(content0, command) ==
    IF Len(command) = 0
    THEN [content |-> <<>>, changed |-> FALSE, err |-> ErrEmptyCommand]
    ELSE
    LET sb == stripBOM(content0)
        bom == sb.bom
        content == sb.content
        newline == detectNewline(content)
        lines == splitLines(content)
        notifyLine == renderNotifyLine(command)
        firstTable == firstTableIndex(lines)
        f == findTopLevelNotify(SubSeq(lines, 1, firstTable))
    IN  IF Len(lines) = 0
        THEN [content |-> bom \o notifyLine \o newline, changed |-> TRUE, err |-> ErrNone]
        ELSE IF f.err
        THEN [content |-> <<>>, changed |-> FALSE, err |-> ErrUnterminated]
        ELSE IF f.found
        THEN IF f.end - f.start = 1 /\ TrimSpace(lines[f.start + 1]) = notifyLine
             THEN [content |-> bom \o content, changed |-> FALSE, err |-> ErrNone]
             ELSE [content |-> bom \o joinLines(SubSeq(lines, 1, f.start)
                                                  \o <<notifyLine>>
                                                  \o SubSeq(lines, f.start + 2, Len(lines)),
                                                newline),
                   changed |-> TRUE, err |-> ErrNone]
        ELSE IF firstTable = 0 /\ Len(lines) > 0 /\ HasPrefix(TrimSpace(lines[1]), <<"[">>)
        THEN [content |-> bom \o joinLines(<<notifyLine, <<>> >> \o lines, newline),
              changed |-> TRUE, err |-> ErrNone]
        ELSE [content |-> bom \o joinLines(SubSeq(lines, 1, firstTable)
                                             \o <<notifyLine>>
                                             \o SubSeq(lines, firstTable + 1, Len(lines)),
                                           newline),
              changed |-> TRUE, err |-> ErrNone]

(* UpsertNotify without the check of the command list: an empty list is
   rendered as an empty array *)
UpsertNotify_EmptyAllowed(content0, command) ==
    LET sb == stripBOM(content0)
        bom == sb.bom
        content == sb.content
        newline == detectNewline(content)
        lines == splitLines(content)
        notifyLine == renderNotifyLine(command)
        firstTable == firstTableIndex(lines)
        f == findTopLevelNotify(SubSeq(lines, 1, firstTable))
    IN  IF Len(lines) = 0
        THEN [content |-> bom \o notifyLine \o newline, changed |-> TRUE, err |-> ErrNone]
        ELSE IF f.err
        THEN [content |-> <<>>, changed |-> FALSE, err |-> ErrUnterminated]
        ELSE IF f.found
        THEN IF f.end - f.start = 1 /\ TrimSpace(lines[f.start + 1]) = notifyLine
             THEN [content |-> bom \o content, changed |-> FALSE, err |-> ErrNone]
             ELSE [content |-> bom \o joinLines(SubSeq(lines, 1, f.start)
                                                  \o <<notifyLine>>
                                                  \o SubSeq(lines, f.end + 1, Len(lines)),
                                                newline),
                   changed |-> TRUE, err |-> ErrNone]
        ELSE IF firstTable = 0 /\ Len(lines) > 0 /\ HasPrefix(TrimSpace(lines[1]), <<"[">>)
        THEN [content |-> bom \o joinLines(<<notifyLine, <<>> >> \o lines, newline),
              changed |-> TRUE, err |-> ErrNone]
        ELSE [content |-> bom \o joinLines(SubSeq(lines, 1, firstTable)
                                             \o <<notifyLine>>
                                             \o SubSeq(lines, firstTable + 1, Len(lines)),
                                           newline),
              changed |-> TRUE, err |-> ErrNone]

UpsertNotify(content0, command) ==
    IF Len(command) = 0
    THEN [content |-> <<>>, changed |-> FALSE, err |-> ErrEmptyCommand]
    ELSE
    LET sb == stripBOM(content0)
        bom == sb.bom
        content == sb.content
        newline == detectNewline(content)
        lines == splitLines(content)
        notifyLine == renderNotifyLine(command)
        firstTable == firstTableIndex(lines)
        f == findTopLevelNotify(SubSeq(lines, 1, firstTable))
    IN  IF Len(lines) = 0
        THEN [content |-> bom \o notifyLine \o newline, changed |-> TRUE, err |-> ErrNone]
        ELSE IF f.err
        THEN [content |-> <<>>, changed |-> FALSE, err |-> ErrUnterminated]
        ELSE IF f.found
        THEN IF f.end - f.start = 1 /\ TrimSpace(lines[f.start + 1]) = notifyLine
             THEN [content |-> bom \o content, changed |-> FALSE, err |-> ErrNone]
             ELSE [content |-> bom \o joinLines(SubSeq(lines, 1, f.start)
                                                  \o <<notifyLine>>
                                                  \o SubSeq(lines, f.end + 1, Len(lines)),
                                                newline),
                   changed |-> TRUE, err |-> ErrNone]
        ELSE IF firstTable = 0 /\ Len(lines) > 0 /\ HasPrefix(TrimSpace(lines[1]), <<"[">>)
        THEN [content |-> bom \o joinLines(<<notifyLine, <<>> >> \o lines, newline),
              changed |-> TRUE, err |-> ErrNone]
        ELSE [content |-> bom \o joinLines(SubSeq(lines, 1, firstTable)
                                             \o <<notifyLine>>
                                             \o SubSeq(lines, firstTable + 1, Len(lines)),
                                           newline),
              changed |-> TRUE, err |-> ErrNone]

(* RemoveNotify joining the lines again when it found nothing to remove *)
RemoveNotify_Rejoining(content0) ==
    LET sb == stripBOM(content0)
        bom == sb.bom
        content == sb.content
        newline == detectNewline(content)
        lines == splitLines(content)
        firstTable == firstTableIndex(lines)
        f == findTopLevelNotify(SubSeq(lines, 1, firstTable))
    IN  IF Len(lines) = 0
        THEN [content |-> bom \o content, changed |-> FALSE, err |-> ErrNone]
        ELSE IF f.err
        THEN [content |-> <<>>, changed |-> FALSE, err |-> ErrUnterminated]
        ELSE IF ~f.found
        THEN [content |-> bom \o joinLines(lines, newline), changed |-> FALSE, err |-> ErrNone]
        ELSE [content |-> bom \o joinLines(
                              trimLeadingBlankLines(SubSeq(lines, 1, f.start)
                                                      \o SubSeq(lines, f.end + 1, Len(lines))),
                              newline),
              changed |-> TRUE, err |-> ErrNone]

RemoveNotify(content0) ==
    LET sb == stripBOM(content0)
        bom == sb.bom
        content == sb.content
        newline == detectNewline(content)
        lines == splitLines(content)
        firstTable == firstTableIndex(lines)
        f == findTopLevelNotify(SubSeq(lines, 1, firstTable))
    IN  IF Len(lines) = 0
        THEN [content |-> bom \o content, changed |-> FALSE, err |-> ErrNone]
        ELSE IF f.err
        THEN [content |-> <<>>, changed |-> FALSE, err |-> ErrUnterminated]
        ELSE IF ~f.found
        THEN [content |-> bom \o content, changed |-> FALSE, err |-> ErrNone]
        ELSE [content |-> bom \o joinLines(
                              trimLeadingBlankLines(SubSeq(lines, 1, f.start)
                                                      \o SubSeq(lines, f.end + 1, Len(lines))),
                              newline),
              changed |-> TRUE, err |-> ErrNone]

----------------------------------------------------------------------------
(* JSON hook patcher.

   A settings text is a record: form says whether the bytes are the user's own
   formatting ("orig") or the output of serialize ("indent"); kind is "empty",
   "space" (whitespace only), "malformed", "null" or "object".  Of an object,
   other tells whether the unrelated top-level keys are there and hooks is the
   raw value of the "hooks" key.  A raw value has kind "absent", "null",
   "invalid" (a value of the wrong JSON type) or the expected "object"/"list".
   Raw matcher groups and hook entries carry extra = TRUE when the JSON object
   has fields the Go structs do not declare. *)

HookEvents == <<"Stop", "Notification">>

claudeHookMarker == <<"c", "c", "-", "n", "o", "t", "i", "f", "y">>

NoEvents == [Stop         |-> [kind |-> "absent", items |-> <<>>],
             Notification |-> [kind |-> "absent", items |-> <<>>],
             PreToolUse   |-> [kind |-> "absent", items |-> <<>>]]

AbsentHooks == [kind |-> "absent", events |-> NoEvents]

(* The empty string: what the patchers return with an error. *)
EmptyContent == [form |-> "orig", kind |-> "empty", other |-> FALSE, hooks |-> AbsentHooks]

ErrParse == "parse claude settings"
ErrParseHooks == "parse hooks"
ErrParseEvent == "parse hook event"
ErrPanic == "panic: assignment to entry in nil map"

(* parseClaudeSettings taking a text that does not decode for an empty object *)
parseClaudeSettings_Lenient(content) ==
    IF content.kind \in {"empty", "space", "null", "malformed"}
    THEN [err |-> ErrNone, raw |-> [other |-> FALSE, hooks |-> AbsentHooks]]
    ELSE [err |-> ErrNone, raw |-> [other |-> content.other, hooks |-> content.hooks]]

(* parseClaudeSettings: the raw key bag, or an error. *)
parseClaudeSettings(content) ==
    IF content.kind \in {"empty", "space", "null"}
    THEN [err |-> ErrNone, raw |-> [other |-> FALSE, hooks |-> AbsentHooks]]
    ELSE IF content.kind = "malformed"
    THEN [err |-> ErrParse, raw |-> [other |-> FALSE, hooks |-> AbsentHooks]]
    ELSE [err |-> ErrNone, raw |-> [other |-> content.other, hooks |-> content.hooks]]

(* serialize writing the hooks key alone *)
serialize_HooksOnly(raw) ==
    [form |-> "indent", kind |-> "object", other |-> FALSE, hooks |-> raw.hooks]

(* json.MarshalIndent of the key bag plus one newline *)
serialize(raw) ==
    [form |-> "indent", kind |-> "object", other |-> raw.other, hooks |-> raw.hooks]

(* getHooks: a Go map of event name to raw value; isNil for the nil map that
   decoding JSON null leaves. *)
getHooks(raw) ==
    IF raw.hooks.kind = "absent"
    THEN [err |-> ErrNone, hooks |-> [isNil |-> FALSE, events |-> NoEvents]]
    ELSE IF raw.hooks.kind = "null"
    THEN [err |-> ErrNone, hooks |-> [isNil |-> TRUE, events |-> NoEvents]]
    ELSE IF raw.hooks.kind = "invalid"
    THEN [err |-> ErrParseHooks, hooks |-> [isNil |-> TRUE, events |-> NoEvents]]
    ELSE [err |-> ErrNone, hooks |-> [isNil |-> FALSE, events |-> raw.hooks.events]]

(* setHooks: json.Marshal of the map, stored under "hooks" *)
setHooks(raw, hooks) ==
    [raw EXCEPT !.hooks = IF hooks.isNil THEN [kind |-> "null", events |-> NoEvents]
                          ELSE [kind |-> "object", events |-> hooks.events]]

(* Decoding into claudeHookEntry / claudeHookMatcher keeps the declared fields
   only; a missing or null "hooks" list decodes to the nil slice. *)
decodeEntry(e) == [Type |-> e.type, Command |-> e.command]

decodeMatcher(g) ==
    [Matcher |-> g.matcher,
     Hooks |-> IF g.hooks.kind = "list"
               THEN [isNil |-> FALSE,
                     items |-> [i \in 1..Len(g.hooks.items) |-> decodeEntry(g.hooks.items[i])]]
               ELSE [isNil |-> TRUE, items |-> <<>>]]

encodeEntry(h) == [type |-> h.Type, command |-> h.Command, extra |-> FALSE]

encodeMatcher(m) ==
    [matcher |-> m.Matcher,
     hooks |-> IF m.Hooks.isNil THEN [kind |-> "null", items |-> <<>>]
               ELSE [kind |-> "list",
                     items |-> [i \in 1..Len(m.Hooks.items) |-> encodeEntry(m.Hooks.items[i])]],
     extra |-> FALSE]

getMatcherList(hooks, event) ==
    LET raw == hooks.events[event]
    IN  IF raw.kind \in {"absent", "null"} THEN [err |-> ErrNone, matchers |-> <<>>]
        ELSE IF raw.kind = "invalid" THEN [err |-> ErrParseEvent, matchers |-> <<>>]
        ELSE [err |-> ErrNone,
              matchers |-> [i \in 1..Len(raw.items) |-> decodeMatcher(raw.items[i])]]

(* setMatcherList; writing into the nil map is a run-time panic, which the
   callers below report as ErrPanic. *)
setMatcherList(hooks, event, matchers) ==
    [hooks EXCEPT !.events[event] =
        [kind |-> "list", items |-> [i \in 1..Len(matchers) |-> encodeMatcher(matchers[i])]]]

IsOurs(h) == Contains(h.Command, claudeHookMarker)

RECURSIVE Filter(_, _)
Filter(hs, keepOurs) ==
    IF Len(hs) = 0 THEN <<>>
    ELSE (IF IsOurs(hs[1]) = keepOurs THEN <<hs[1]>> ELSE <<>>) \o Filter(Tail(hs), keepOurs)

RECURSIVE removeOurHookFrom(_, _)
removeOurHookFrom(matchers, i) ==
    IF i > Len(matchers) THEN <<>>
    ELSE LET m == matchers[i]
             filtered == Filter(m.Hooks.items, FALSE)
         IN  (IF Len(filtered) > 0
              THEN <<[m EXCEPT !.Hooks = [isNil |-> FALSE, items |-> filtered]]>>
              ELSE IF Len(m.Hooks.items) > 0 THEN <<>>
              ELSE <<m>>)
                 \o removeOurHookFrom(matchers, i + 1)

containsOurHook(matchers) ==
    \E i \in 1..Len(matchers) : \E j \in 1..Len(matchers[i].Hooks.items) :
        IsOurs(matchers[i].Hooks.items[j])

(* removeOurHook reporting a removal whatever it found *)
removeOurHook_AlwaysChanged(matchers) ==
    [result |-> removeOurHookFrom(matchers, 1), changed |-> TRUE]

removeOurHook(matchers) ==
    [result |-> removeOurHookFrom(matchers, 1), changed |-> containsOurHook(matchers)]

NotifyClaudeArgs ==
    <<SP, "n", "o", "t", "i", "f", "y", SP, "-", "-", "c", "l", "a", "u", "d", "e">>

buildNotifyCommand(exePath) == exePath \o NotifyClaudeArgs

(* upsertEvent reporting a change only when an earlier entry was removed *)
upsertEvent_ChangedWhenRemoved(st, event, cmd) ==
    IF st.err # ErrNone THEN st
    ELSE LET got == getMatcherList(st.hooks, event)
             newMatcher == [Matcher |-> <<>>,
                            Hooks |-> [isNil |-> FALSE,
                                       items |-> <<[Type |-> "command", Command |-> cmd]>>]]
         IN  IF got.err # ErrNone THEN [st EXCEPT !.err = got.err]
             ELSE IF st.hooks.isNil THEN [st EXCEPT !.err = ErrPanic]
             ELSE [hooks |-> setMatcherList(st.hooks, event,
                                            Append(removeOurHook(got.matchers).result,
                                                   newMatcher)),
                   anyChanged |-> st.anyChanged \/ removeOurHook(got.matchers).changed,
                   err |-> ErrNone]

(* One round of ClaudeUpsertHook's loop over the events. *)
upsertEvent(st, event, cmd) ==
    IF st.err # ErrNone THEN st
    ELSE LET got == getMatcherList(st.hooks, event)
             newMatcher == [Matcher |-> <<>>,
                            Hooks |-> [isNil |-> FALSE,
                                       items |-> <<[Type |-> "command", Command |-> cmd]>>]]
         IN  IF got.err # ErrNone THEN [st EXCEPT !.err = got.err]
             ELSE IF st.hooks.isNil THEN [st EXCEPT !.err = ErrPanic]
             ELSE [hooks |-> setMatcherList(st.hooks, event,
                                            Append(removeOurHook(got.matchers).result,
                                                   newMatcher)),
                   anyChanged |-> TRUE,
                   err |-> ErrNone]

ClaudeUpsertHook(content, exePath) ==
    LET parsed == parseClaudeSettings(content)
        gh == getHooks(parsed.raw)
        cmd == buildNotifyCommand(exePath)
        st0 == [hooks |-> gh.hooks, anyChanged |-> FALSE, err |-> ErrNone]
        st == upsertEvent(upsertEvent(st0, HookEvents[1], cmd), HookEvents[2], cmd)
    IN  IF parsed.err # ErrNone
        THEN [content |-> EmptyContent, changed |-> FALSE, err |-> parsed.err]
        ELSE IF gh.err # ErrNone
        THEN [content |-> EmptyContent, changed |-> FALSE, err |-> gh.err]
        ELSE IF st.err # ErrNone
        THEN [content |-> EmptyContent, changed |-> FALSE, err |-> st.err]
        ELSE [content |-> serialize(setHooks(parsed.raw, st.hooks)),
              changed |-> st.anyChanged, err |-> ErrNone]

(* removeEvent storing the emptied list instead of deleting the event *)
removeEvent_KeepsEmptyList(st, event) ==
    IF st.err # ErrNone THEN st
    ELSE LET got == getMatcherList(st.hooks, event)
             rem == removeOurHook(got.matchers)
         IN  IF got.err # ErrNone THEN [st EXCEPT !.err = got.err]
             ELSE IF ~rem.changed THEN st
             ELSE [st EXCEPT !.anyChanged = TRUE,
                             !.hooks = setMatcherList(st.hooks, event, rem.result)]

(* One round of ClaudeRemoveHook's loop over the events. *)
removeEvent(st, event) ==
    IF st.err # ErrNone THEN st
    ELSE LET got == getMatcherList(st.hooks, event)
             rem == removeOurHook(got.matchers)
         IN  IF got.err # ErrNone THEN [st EXCEPT !.err = got.err]
             ELSE IF ~rem.changed THEN st
             ELSE IF Len(rem.result) = 0
             THEN [st EXCEPT !.anyChanged = TRUE,
                             !.hooks.events[event] = [kind |-> "absent", items |-> <<>>]]
             ELSE [st EXCEPT !.anyChanged = TRUE,
                             !.hooks = setMatcherList(st.hooks, event, rem.result)]

(* len(hooks): the number of keys of the map *)
HooksLen(hooks) == Cardinality({e \in DOMAIN hooks.events : hooks.events[e].kind # "absent"})

(* ClaudeRemoveHook serializing the settings again when nothing matched *)
ClaudeRemoveHook_Reserialized(content) ==
    LET parsed == parseClaudeSettings(content)
        gh == getHooks(parsed.raw)
        st0 == [hooks |-> gh.hooks, anyChanged |-> FALSE, err |-> ErrNone]
        st == removeEvent(removeEvent(st0, HookEvents[1]), HookEvents[2])
    IN  IF parsed.err # ErrNone
        THEN [content |-> EmptyContent, changed |-> FALSE, err |-> parsed.err]
        ELSE IF gh.err # ErrNone
        THEN [content |-> EmptyContent, changed |-> FALSE, err |-> gh.err]
        ELSE IF st.err # ErrNone
        THEN [content |-> EmptyContent, changed |-> FALSE, err |-> st.err]
        ELSE [content |-> serialize(IF HooksLen(st.hooks) = 0
                                    THEN [parsed.raw EXCEPT !.hooks = AbsentHooks]
                                    ELSE setHooks(parsed.raw, st.hooks)),
              changed |-> st.anyChanged, err |-> ErrNone]

ClaudeRemoveHook(content) ==
    LET parsed == parseClaudeSettings(content)
        gh == getHooks(parsed.raw)
        st0 == [hooks |-> gh.hooks, anyChanged |-> FALSE, err |-> ErrNone]
        st == removeEvent(removeEvent(st0, HookEvents[1]), HookEvents[2])
    IN  IF parsed.err # ErrNone
        THEN [content |-> EmptyContent, changed |-> FALSE, err |-> parsed.err]
        ELSE IF gh.err # ErrNone
        THEN [content |-> EmptyContent, changed |-> FALSE, err |-> gh.err]
        ELSE IF st.err # ErrNone
        THEN [content |-> EmptyContent, changed |-> FALSE, err |-> st.err]
        ELSE IF ~st.anyChanged
        THEN [content |-> content, changed |-> FALSE, err |-> ErrNone]
        ELSE [content |-> serialize(IF HooksLen(st.hooks) = 0
                                    THEN [parsed.raw EXCEPT !.hooks = AbsentHooks]
                                    ELSE setHooks(parsed.raw, st.hooks)),
              changed |-> TRUE, err |-> ErrNone]

----------------------------------------------------------------------------
(* Inputs of the JSON patcher *)

(* Executable paths: one whose name contains the program name, one renamed. *)
ExeMarked == <<BSLASH, "c", "c", "-", "n", "o", "t", "i", "f", "y">>
ExeRenamed == <<BSLASH, "c", "c", "n">>

ExePaths == {ExeMarked, ExeRenamed}

(* The path of an earlier install, found in settings written before. *)
ExeOld == <<"o", "l", "d", "-", "c", "c", "-", "n", "o", "t", "i", "f", "y">>

(* The most hook entries and empty matcher groups a generated event list has. *)
MaxEntries == 3

ForeignCommand == <<"o", "t", "h", "e", "r">>
OldCommand == buildNotifyCommand(ExeOld)
BashMatcher == <<"B", "a", "s", "h">>

(* Raw hook entries: a foreign one, a foreign one with a field the Go struct
   does not declare ("timeout"), and one of an earlier install. *)
EntryPool == {[type |-> "command", command |-> ForeignCommand, extra |-> FALSE],
              [type |-> "command", command |-> ForeignCommand, extra |-> TRUE],
              [type |-> "command", command |-> OldCommand, extra |-> FALSE]}

(* A slot is one hook entry and how it is placed: in the group of the slot
   before it ("same"), first in a new group with an empty matcher ("plain"),
   first in a new group with the matcher Bash and an undeclared field
   ("bash"); or it is a group without entries, its hooks list empty
   ("emptyList") or missing ("noHooks"). *)
Slots == [entry : EntryPool, head : {"same", "plain", "bash"}]
             \cup {[entry |-> CHOOSE e \in EntryPool : TRUE, head |-> h] :
                       h \in {"emptyList", "noHooks"}}

RECURSIVE GroupsOf(_, _)
GroupsOf(slots, n) ==
    IF n = 0 THEN <<>>
    ELSE LET before == GroupsOf(slots, n - 1)
             sl == slots[n]
             k == Len(before)
         IN  IF sl.head = "same" /\ k > 0
             THEN [before EXCEPT ![k].hooks =
                      [kind |-> "list", items |-> Append(before[k].hooks.items, sl.entry)]]
             ELSE IF sl.head = "emptyList"
             THEN Append(before, [matcher |-> <<>>, extra |-> FALSE,
                                  hooks |-> [kind |-> "list", items |-> <<>>]])
             ELSE IF sl.head = "noHooks"
             THEN Append(before, [matcher |-> BashMatcher, extra |-> FALSE,
                                  hooks |-> [kind |-> "absent", items |-> <<>>]])
             ELSE Append(before,
                         [matcher |-> IF sl.head = "bash" THEN BashMatcher ELSE <<>>,
                          extra |-> sl.head = "bash",
                          hooks |-> [kind |-> "list", items |-> <<sl.entry>>]])

GroupLists ==
    {GroupsOf(sl, Len(sl)) : sl \in UNION {[1..n -> Slots] : n \in 0..MaxEntries}}

RawList(groups) == [kind |-> "list", items |-> groups]
RawAbsent == [kind |-> "absent", items |-> <<>>]
RawNull == [kind |-> "null", items |-> <<>>]
RawInvalid == [kind |-> "invalid", items |-> <<>>]
RawPresent == [kind |-> "list", items |-> <<>>]

OldGroup == [matcher |-> <<>>, extra |-> FALSE,
             hooks |-> [kind |-> "list",
                        items |-> <<[type |-> "command", command |-> OldCommand,
                                     extra |-> FALSE]>>]]

Object(other, hooks) == [form |-> "orig", kind |-> "object", other |-> other, hooks |-> hooks]

HooksObject(stop, notification, preToolUse) ==
    [kind |-> "object",
     events |-> [Stop |-> stop, Notification |-> notification, PreToolUse |-> preToolUse]]

(* What surrounds the generated Stop list: the Notification list, and whether
   the unrelated top-level keys and the unrelated PreToolUse event are there. *)
Surroundings == {[notification |-> RawAbsent, other |-> FALSE],
                 [notification |-> RawList(<<>>), other |-> TRUE],
                 [notification |-> RawList(<<OldGroup>>), other |-> TRUE]}

(* Settings with a well-typed hooks object. *)
TypedSettings ==
    {Object(c.other, HooksObject(RawList(g), c.notification,
                                 IF c.other THEN RawPresent ELSE RawAbsent)) :
         g \in GroupLists, c \in Surroundings}

(* Settings without content, not parsing, or with hooks missing, null, of the
   wrong type or empty, or with an event null or of the wrong type. *)
EdgeSettings ==
    {[EmptyContent EXCEPT !.kind = k] : k \in {"empty", "space", "malformed", "null"}}
        \cup {Object(o, h) : o \in BOOLEAN,
                             h \in {AbsentHooks,
                                    [kind |-> "null", events |-> NoEvents],
                                    [kind |-> "invalid", events |-> NoEvents],
                                    HooksObject(RawAbsent, RawAbsent, RawAbsent),
                                    HooksObject(RawNull, RawAbsent, RawAbsent),
                                    HooksObject(RawInvalid, RawAbsent, RawAbsent),
                                    HooksObject(RawList(<<OldGroup>>), RawInvalid, RawAbsent),
                                    HooksObject(RawAbsent, RawList(<<OldGroup>>), RawPresent)}}

SettingsDocs == TypedSettings \cup EdgeSettings

----------------------------------------------------------------------------
(* Inputs of the TOML patcher *)

MaxLines == 3

NotifyArg == <<"n", "o", "t", "i", "f", "y">>

(* The command lists the patcher is called with; installCodex passes
   [exePath, "notify"], the empty list is the rejected input. *)
Commands == {<<>>} \cup {<<e, NotifyArg>> : e \in ExePaths}

LRendered == renderNotifyLine(<<ExeMarked, NotifyArg>>)
LOld == <<SP, "n", "o", "t", "i", "f", "y", "=", "[", QUOTE, "x", QUOTE, "]", SP, "#", "]">>
LOpen == <<"n", "o", "t", "i", "f", "y", SP, "=", SP, "[", SP,
           QUOTE, "x", BSLASH, QUOTE, "#", "[", QUOTE, ",", SP, "#", "[">>
LIndented == <<SP>> \o LRendered \o <<SP>>
LClose == <<"]">>
LTable == <<"[", "f", "o", "o", "]">>
LBar == <<"b", "a", "r", "=", "1">>
LBlank == <<>>
LArrayRow == <<"[", "1", "]", ",">>
LMatrix == <<"m", "=", "[">>

LinePool == {LRendered, LIndented, LOld, LOpen, LClose, LTable, LBar, LBlank, LArrayRow,
             LMatrix}

LineSeqs == UNION {[1..n -> LinePool] : n \in 0..MaxLines}

(* File styles: byte-order mark or not, the line terminator (LF, CRLF, or
   mixed: CRLF after the first line and LF after the others), and whether the
   last line is terminated.  The four uniform styles cover every pair of
   choices. *)
Styles == {[bom |-> FALSE, newline |-> "lf",    final |-> TRUE],
           [bom |-> TRUE,  newline |-> "crlf",  final |-> TRUE],
           [bom |-> TRUE,  newline |-> "lf",    final |-> FALSE],
           [bom |-> FALSE, newline |-> "crlf",  final |-> FALSE],
           [bom |-> FALSE, newline |-> "mixed", final |-> TRUE]}

Terminator(style, i) ==
    IF style.newline = "crlf" \/ (style.newline = "mixed" /\ i = 1) THEN CRLF ELSE <<LF>>

RECURSIVE TextFrom(_, _, _)
TextFrom(lines, style, i) ==
    IF i > Len(lines) THEN <<>>
    ELSE lines[i]
             \o (IF i < Len(lines) \/ style.final THEN Terminator(style, i) ELSE <<>>)
             \o TextFrom(lines, style, i + 1)

Text(lines, style) == (IF style.bom THEN <<BOM>> ELSE <<>>) \o TextFrom(lines, style, 1)

TomlDocs == {Text(ls, st) : ls \in LineSeqs, st \in Styles}

----------------------------------------------------------------------------
(* A patcher applied to a configuration text, and then a patcher of the same
   tool applied once more to the content the first call returned (an
   UpsertNotify is followed by an UpsertNotify with the same command only). *)

NoCall == [op |-> "none", arg |-> <<>>, input |-> <<>>, out |-> <<>>,
           changed |-> FALSE, err |-> ErrNone]

(* string(content) of a file that is not there *)
NoContent(t) == IF t = "codex" THEN <<>> ELSE EmptyContent

Missing(t) == [exists |-> FALSE, content |-> NoContent(t)]

Present(content) == [exists |-> TRUE, content |-> content]

(* No invocation of the commands is running. *)
NoInstall ==
    /\ file = [t \in {"codex", "claude"} |-> Missing(t)]
    /\ initial = file
    /\ proc = <<>>

(* No approval is pending, no respond is running, nothing was notified. *)
NoRespond ==
    /\ now = 0
    /\ pending = <<>>
    /\ delivered = <<>>
    /\ resp = <<>>
    /\ notifier = <<>>

InitToml ==
    /\ tool = "codex"
    /\ doc \in TomlDocs
    /\ last = NoCall
    /\ prev = NoCall
    /\ NoInstall
    /\ NoRespond

InitJson ==
    /\ tool = "claude"
    /\ doc \in SettingsDocs
    /\ last = NoCall
    /\ prev = NoCall
    /\ NoInstall
    /\ NoRespond

FirstCall == last.op = "none"

FollowUpCall == last.op # "none" /\ prev.op = "none" /\ last.err = ErrNone

(* The call is recorded and the returned content is kept unless it failed. *)
Called(op, arg, r) ==
    /\ last' = [op |-> op, arg |-> arg, input |-> doc, out |-> r.content,
                changed |-> r.changed, err |-> r.err]
    /\ doc' = IF r.err = ErrNone THEN r.content ELSE doc
    /\ prev' = last
    /\ UNCHANGED <<tool, installVars, respondVars>>

CallUpsertNotify ==
    /\ tool = "codex"
    /\ \E command \in Commands :
        /\ FirstCall \/ (FollowUpCall /\ (last.op = "UpsertNotify" => command = last.arg))
        /\ Called("UpsertNotify", command, UpsertNotify(doc, command))

CallRemoveNotify ==
    /\ tool = "codex"
    /\ FirstCall \/ FollowUpCall
    /\ Called("RemoveNotify", <<>>, RemoveNotify(doc))

CallClaudeUpsertHook ==
    /\ tool = "claude"
    /\ FirstCall \/ FollowUpCall
    /\ \E exePath \in ExePaths :
        Called("ClaudeUpsertHook", exePath, ClaudeUpsertHook(doc, exePath))

CallClaudeRemoveHook ==
    /\ tool = "claude"
    /\ FirstCall \/ FollowUpCall
    /\ Called("ClaudeRemoveHook", <<>>, ClaudeRemoveHook(doc))

NextToml == CallUpsertNotify \/ CallRemoveNotify

NextJson == CallClaudeUpsertHook \/ CallClaudeRemoveHook

NextPatch == CallUpsertNotify \/ CallRemoveNotify \/ CallClaudeUpsertHook
                 \/ CallClaudeRemoveHook

(* The assignment state tracker alone: scan applied to a line, and again to
   the next line with the state the line before left, as findTopLevelNotify
   does for the lines of a value. *)
MaxScanLen == 3

MaxDepth == 1

ScanChars == {QUOTE, BSLASH, "#", "[", "]", "a"}

ScanLines == UNION {[1..n -> ScanChars] : n \in 0..MaxScanLen}

(* The tracker a call left; the zero value before the first call. *)
TrackerOf(call) == IF call.op = "scan" THEN call.out ELSE assignmentState

InitScan ==
    /\ tool = "tracker"
    /\ doc = <<>>
    /\ last = NoCall
    /\ prev = NoCall
    /\ NoInstall
    /\ NoRespond

CallScan ==
    /\ tool = "tracker"
    /\ TrackerOf(last).bracketDepth <= MaxDepth
    /\ \E line \in ScanLines :
           /\ last' = [op |-> "scan", arg |-> TrackerOf(last), input |-> line,
                       out |-> scan(TrackerOf(last), line),
                       changed |-> FALSE, err |-> ErrNone]
           /\ doc' = line
    /\ UNCHANGED <<tool, prev, installVars, respondVars>>

NextScan == CallScan

SpecScan == InitScan /\ [][NextScan]_vars

(* UpsertNotify of any command on a document without lines, and then
   RemoveNotify or the same UpsertNotify on what it returned. *)
MaxPart == 2

PartChars == {QUOTE, BSLASH, "[", "]", "#", "=", LF, CR, TAB, "a"}

Parts == UNION {[1..n -> PartChars] : n \in 0..MaxPart}

AnyCommands == {<<part, NotifyArg>> : part \in Parts}

EmptyDocs == {<<>>, <<BOM>>, <<LF>>, CRLF, <<BOM>> \o CRLF}

InitEmpty ==
    /\ tool = "codex"
    /\ doc \in EmptyDocs
    /\ last = NoCall
    /\ prev = NoCall
    /\ NoInstall
    /\ NoRespond

CallUpsertNotifyAny ==
    /\ tool = "codex"
    /\ \E command \in AnyCommands :
        /\ FirstCall \/ (FollowUpCall /\ (last.op = "UpsertNotify" => command = last.arg))
        /\ Called("UpsertNotify", command, UpsertNotify(doc, command))

NextRoundTrip == CallUpsertNotifyAny \/ CallRemoveNotify

SpecRoundTrip == InitEmpty /\ [][NextRoundTrip]_vars

(* The TOML patcher alone, the JSON patcher alone, and both. *)
SpecToml == InitToml /\ [][NextToml]_vars

SpecJson == InitJson /\ [][NextJson]_vars

SpecPatch == (InitToml \/ InitJson) /\ [][NextPatch]_vars

----------------------------------------------------------------------------
(* The install and uninstall commands.  An invocation goes through the tools
   of its target; for each it reads the config file, calls the patcher on
   what it read, and writes the file when the patcher reports a change.
   Invocations are separate operating-system processes: the read and the
   write of one may have steps of another between them. *)

NumProcs == 2

Procs == 1..NumProcs

Targets == {"all", "codex", "claude"}

(* The tools runInstall and runUninstall go through for a target, in order. *)
Todo(target) == IF target = "all" THEN <<"codex", "claude">> ELSE <<target>>

Invocation(cmd, exePath, target) ==
    [cmd |-> cmd, exePath |-> exePath, target |-> target, todo |-> Todo(target),
     pc |-> "read", content |-> <<>>, outcome |-> "none",
     ran |-> [codex |-> "none", claude |-> "none"]]

(* Every invocation is of the same executable. *)
Invocations ==
    {Invocation("install", ExeMarked, t) : t \in Targets}
        \cup {Invocation("uninstall", <<>>, t) : t \in Targets}

PlainStyle == [bom |-> FALSE, newline |-> "lf", final |-> TRUE]

(* The config.toml files the commands start from: none, one with another
   notify command, one already configured, one whose notify array never
   closes. *)
CodexFiles ==
    {Missing("codex")}
        \cup {Present(Text(ls, PlainStyle)) :
                  ls \in {<<LOld, LBar>>, <<LRendered, LTable>>, <<LOpen, LBar>>}}

(* The settings.json files the commands start from: none, one that does not
   parse, one with hooks of an earlier installation, one with no hooks. *)
ClaudeFiles ==
    {Missing("claude"),
     Present([EmptyContent EXCEPT !.kind = "malformed"]),
     Present(Object(TRUE, HooksObject(RawList(<<OldGroup>>), RawList(<<OldGroup>>),
                                      RawPresent))),
     Present(Object(TRUE, AbsentHooks))}

InitInstall ==
    /\ tool = "none"
    /\ doc = <<>>
    /\ last = NoCall
    /\ prev = NoCall
    /\ file \in [codex : CodexFiles, claude : ClaudeFiles]
    /\ initial = file
    /\ proc \in [Procs -> Invocations]
    /\ NoRespond

(* Invocation p runs cmd, is at tool t, and is before its read or its patch. *)
At(p, cmd, t, pc) ==
    /\ proc[p].cmd = cmd
    /\ proc[p].todo # <<>>
    /\ Head(proc[p].todo) = t
    /\ proc[p].pc = pc

(* The function of the tool the invocation is at returns; the invocation goes
   on to the next tool.  ran keeps, for each tool, the command that was last
   run for it from this terminal. *)
Returns(p, outcome) ==
    proc' = [proc EXCEPT ![p] = [@ EXCEPT !.todo = Tail(@), !.pc = "read",
                                          !.content = <<>>, !.outcome = outcome,
                                          !.ran[Head(proc[p].todo)] = proc[p].cmd]]

(* content, err := a.readFile(cfgPath) of a file that is there, or in the
   install commands of one that is not *)
Reads(p, t) ==
    /\ proc' = [proc EXCEPT ![p] = [@ EXCEPT !.pc = "patch", !.content = file[t].content]]
    /\ UNCHANGED file

(* a.writeFile(cfgPath, []byte(updated), 0o644) *)
Writes(p, t, updated) ==
    /\ file' = [file EXCEPT ![t] = Present(updated)]
    /\ Returns(p, "written")

installCodex(p) ==
    /\ \/ /\ At(p, "install", "codex", "read")
          /\ Reads(p, "codex")
       \/ /\ At(p, "install", "codex", "patch")
          /\ LET r == UpsertNotify(proc[p].content, <<proc[p].exePath, NotifyArg>>)
             IN  IF r.err # ErrNone THEN Returns(p, "error") /\ UNCHANGED file
                 ELSE IF ~r.changed THEN Returns(p, "unchanged") /\ UNCHANGED file
                 ELSE Writes(p, "codex", r.content)
    /\ UNCHANGED <<patchVars, initial, respondVars>>

(* installClaude giving up on a missing settings file, as uninstallClaude does *)
installClaude_NeedsFile(p) ==
    /\ \/ /\ At(p, "install", "claude", "read")
          /\ IF ~file.claude.exists THEN Returns(p, "missing") /\ UNCHANGED file
             ELSE Reads(p, "claude")
       \/ /\ At(p, "install", "claude", "patch")
          /\ LET r == ClaudeUpsertHook(proc[p].content, proc[p].exePath)
             IN  IF r.err # ErrNone THEN Returns(p, "error") /\ UNCHANGED file
                 ELSE IF ~r.changed THEN Returns(p, "unchanged") /\ UNCHANGED file
                 ELSE Writes(p, "claude", r.content)
    /\ UNCHANGED <<patchVars, initial, respondVars>>

installClaude(p) ==
    /\ \/ /\ At(p, "install", "claude", "read")
          /\ Reads(p, "claude")
       \/ /\ At(p, "install", "claude", "patch")
          /\ LET r == ClaudeUpsertHook(proc[p].content, proc[p].exePath)
             IN  IF r.err # ErrNone THEN Returns(p, "error") /\ UNCHANGED file
                 ELSE IF ~r.changed THEN Returns(p, "unchanged") /\ UNCHANGED file
                 ELSE Writes(p, "claude", r.content)
    /\ UNCHANGED <<patchVars, initial, respondVars>>

(* uninstallCodex writing whatever the patcher returned *)
uninstallCodex_Unchecked(p) ==
    /\ \/ /\ At(p, "uninstall", "codex", "read")
          /\ IF ~file.codex.exists THEN Returns(p, "missing") /\ UNCHANGED file
             ELSE Reads(p, "codex")
       \/ /\ At(p, "uninstall", "codex", "patch")
          /\ LET r == RemoveNotify(proc[p].content)
             IN  Writes(p, "codex", r.content)
    /\ UNCHANGED <<patchVars, initial, respondVars>>

uninstallCodex(p) ==
    /\ \/ /\ At(p, "uninstall", "codex", "read")
          /\ IF ~file.codex.exists THEN Returns(p, "missing") /\ UNCHANGED file
             ELSE Reads(p, "codex")
       \/ /\ At(p, "uninstall", "codex", "patch")
          /\ LET r == RemoveNotify(proc[p].content)
             IN  IF r.err # ErrNone THEN Returns(p, "error") /\ UNCHANGED file
                 ELSE IF ~r.changed THEN Returns(p, "unchanged") /\ UNCHANGED file
                 ELSE Writes(p, "codex", r.content)
    /\ UNCHANGED <<patchVars, initial, respondVars>>

uninstallClaude(p) ==
    /\ \/ /\ At(p, "uninstall", "claude", "read")
          /\ IF ~file.claude.exists THEN Returns(p, "missing") /\ UNCHANGED file
             ELSE Reads(p, "claude")
       \/ /\ At(p, "uninstall", "claude", "patch")
          /\ LET r == ClaudeRemoveHook(proc[p].content)
             IN  IF r.err # ErrNone THEN Returns(p, "error") /\ UNCHANGED file
                 ELSE IF ~r.changed THEN Returns(p, "unchanged") /\ UNCHANGED file
                 ELSE Writes(p, "claude", r.content)
    /\ UNCHANGED <<patchVars, initial, respondVars>>

runInstall(p) == installCodex(p) \/ installClaude(p)

runUninstall(p) == uninstallCodex(p) \/ uninstallClaude(p)

NextInstall == \E p \in Procs : runInstall(p) \/ runUninstall(p)

SpecInstall == InitInstall /\ [][NextInstall]_vars

(* Commands run one after the other from one terminal, starting with no
   config file: when a command has returned, the next one is started. *)
InitRuns ==
    /\ tool = "none"
    /\ doc = <<>>
    /\ last = NoCall
    /\ prev = NoCall
    /\ file = [codex |-> Missing("codex"), claude |-> Missing("claude")]
    /\ initial = file
    /\ proc \in [{1} -> Invocations]
    /\ NoRespond

Run(p) ==
    /\ proc[p].todo = <<>>
    /\ \E inv \in Invocations : proc' = [proc EXCEPT ![p] = [inv EXCEPT !.ran = proc[p].ran]]
    /\ UNCHANGED <<patchVars, file, initial, respondVars>>

NextRuns == \E p \in DOMAIN proc : Run(p) \/ runInstall(p) \/ runUninstall(p)

SpecRuns == InitRuns /\ [][NextRuns]_vars

----------------------------------------------------------------------------
(* The Windows notifier.  A notifier is made with the mode that
   parseNotifyMode reads from CC_NOTIFY_MODE; Notify runs the toast script,
   the popup script or both through the command runner, whose outcome is the
   environment's. *)

modeAuto == 0
modeToast == 1
modePopup == 2

(* strings.ToLower on the letters of the model *)
ToLower(s) ==
    LET lower(c) == IF c = "T" THEN "t" ELSE IF c = "P" THEN "p" ELSE IF c = "O" THEN "o"
                    ELSE IF c = "A" THEN "a" ELSE IF c = "S" THEN "s" ELSE IF c = "U" THEN "u"
                    ELSE c
    IN  [i \in 1..Len(s) |-> lower(s[i])]

parseNotifyMode(raw) ==
    LET name == ToLower(TrimSpace(raw))
    IN  IF name = <<"t", "o", "a", "s", "t">> THEN modeToast
        ELSE IF name = <<"p", "o", "p", "u", "p">> THEN modePopup
        ELSE modeAuto

(* The values CC_NOTIFY_MODE is given: unset, the names of two modes in
   another case and with white space around them, and a name that is none of
   the modes. *)
RawModes == {<<>>,
             <<SP, "T", "o", "a", "s", "t", LF>>,
             <<"P", "O", "P", "U", "P">>,
             <<"t", "o", "p">>}

ErrToastMode == "send windows notification (toast)"
ErrPopupMode == "send windows notification (popup)"
ErrFallback == "send windows notification: toast failed; popup fallback failed"

(* One runPowerShell of a script, with what the runner returned. *)
Attempt(script, fails) == [script |-> script, failed |-> fails]

(* Notify running the popup script after the toast script whatever the toast
   script returned *)
Notify_AlwaysBoth(mode, toastFails, popupFails) ==
    IF mode = modeToast
    THEN [attempts |-> <<Attempt("toast", toastFails)>>,
          err |-> IF toastFails THEN ErrToastMode ELSE ErrNone]
    ELSE IF mode = modePopup
    THEN [attempts |-> <<Attempt("popup", popupFails)>>,
          err |-> IF popupFails THEN ErrPopupMode ELSE ErrNone]
    ELSE [attempts |-> <<Attempt("toast", toastFails), Attempt("popup", popupFails)>>,
          err |-> IF toastFails /\ popupFails THEN ErrFallback ELSE ErrNone]

(* windowsNotifier.Notify: the attempts it makes, in order, and its error. *)
Notify(mode, toastFails, popupFails) ==
    IF mode = modeToast
    THEN [attempts |-> <<Attempt("toast", toastFails)>>,
          err |-> IF toastFails THEN ErrToastMode ELSE ErrNone]
    ELSE IF mode = modePopup
    THEN [attempts |-> <<Attempt("popup", popupFails)>>,
          err |-> IF popupFails THEN ErrPopupMode ELSE ErrNone]
    ELSE IF toastFails
    THEN [attempts |-> <<Attempt("toast", toastFails), Attempt("popup", popupFails)>>,
          err |-> IF popupFails THEN ErrFallback ELSE ErrNone]
    ELSE [attempts |-> <<Attempt("toast", toastFails)>>, err |-> ErrNone]

(* NewWithConfig: a notifier that has not notified yet. *)
NewWithConfig(raw) ==
    [raw |-> raw, mode |-> parseNotifyMode(raw), called |-> FALSE,
     attempts |-> <<>>, err |-> ErrNone]

(* a.notifier.Notify(title, body): the runner fails or not for each script. *)
Notifies ==
    \E toastFails \in BOOLEAN, popupFails \in BOOLEAN :
        LET r == Notify(notifier.mode, toastFails, popupFails)
        IN  notifier' = [notifier EXCEPT !.called = TRUE, !.attempts = r.attempts,
                                         !.err = r.err]

----------------------------------------------------------------------------
(* The respond command.  A pending approval is a file named by its id;
   respond loads it, checks its expiry time, hands the decision to the
   approval executor and deletes the file.  Respond invocations are started
   by the buttons of a notification, each in a process of its own. *)

NumResponders == 2

Responders == 1..NumResponders

(* Seconds between two readings of the clock, and how often it advances. *)
ClockStep == 1000
MaxTicks == 1

(* int64((15 * time.Minute).Seconds()) *)
ApprovalTTL == 900

isValidApprovalID(id) ==
    /\ Len(id) = 16
    /\ \A i \in 1..Len(id) :
           id[i] \in {"0", "1", "2", "3", "4", "5", "6", "7", "8", "9",
                      "a", "b", "c", "d", "e", "f"}

(* Ids randomApprovalID returns, and what respond is given as --id: one of
   them, an id that is no id, or nothing. *)
ApprovalIds == {[i \in 1..16 |-> "a"], [i \in 1..16 |-> IF i = 1 THEN "0" ELSE "f"]}

RespondIds == ApprovalIds \cup {[i \in 1..16 |-> "A"], <<>>}

Decisions == {"approve", "reject"}

(* os.Getppid() of the process that creates the approval *)
ParentPIDs == {0, 1}

NoFile == [exists |-> FALSE, issued |-> FALSE, ParentPID |-> 0, ExpiresAtUnix |-> 0]

ErrNoId == "respond requires --id"
ErrInvalidId == "invalid approval id"
ErrRead == "read pending approval"
ErrInvalidItem == "pending approval is invalid"
ErrExpired == "approval request expired"
ErrDeliver == "deliver failed"

Idle == [pc |-> "idle", id |-> <<>>, decision |-> "", item |-> NoFile,
         late |-> FALSE, expired |-> FALSE, err |-> ErrNone]

InitRespond ==
    /\ tool = "none"
    /\ doc = <<>>
    /\ last = NoCall
    /\ prev = NoCall
    /\ file = [t \in {"codex", "claude"} |-> Missing(t)]
    /\ initial = file
    /\ proc = <<>>
    /\ now = 0
    /\ pending = [id \in ApprovalIds |-> NoFile]
    /\ delivered = <<>>
    /\ resp = [p \in Responders |-> Idle]
    /\ notifier = NewWithConfig(<<>>)

(* The clock advances. *)
Tick ==
    /\ now < MaxTicks * ClockStep
    /\ now' = now + ClockStep
    /\ UNCHANGED <<patchVars, installVars, pending, delivered, resp, notifier>>

(* createPendingApproval with an id that was not given out before *)
createPendingApproval ==
    /\ \E id \in ApprovalIds, parentPID \in ParentPIDs :
           /\ ~pending[id].issued
           /\ pending' = [pending EXCEPT ![id] =
                             [exists |-> TRUE, issued |-> TRUE, ParentPID |-> parentPID,
                              ExpiresAtUnix |-> now + ApprovalTTL]]
    /\ UNCHANGED <<patchVars, installVars, now, delivered, resp, notifier>>

loadPendingApproval(id) ==
    IF ~isValidApprovalID(id) THEN [err |-> ErrInvalidId, item |-> NoFile]
    ELSE IF ~pending[id].exists THEN [err |-> ErrRead, item |-> NoFile]
    ELSE IF pending[id].ParentPID <= 0 THEN [err |-> ErrInvalidItem, item |-> NoFile]
    ELSE [err |-> ErrNone, item |-> pending[id]]

(* os.Remove of the approval's file; no error when it is not there *)
deletePendingApproval(id) ==
    pending' = [pending EXCEPT ![id] = [NoFile EXCEPT !.issued = TRUE]]

(* The decision was delivered for the id before: Deliver returned without
   error. *)
DeliveredBefore(id) ==
    \E k \in 1..Len(delivered) : delivered[k].id = id /\ delivered[k].ok

(* runRespond returns. *)
RespondReturns(p, err) ==
    resp' = [resp EXCEPT ![p] = [Idle EXCEPT !.pc = "done", !.err = err,
                                             !.late = resp[p].late]]

(* runRespond up to the loaded approval.  late and expired keep what was the
   case when the invocation started. *)
respondLoad(p) ==
    /\ resp[p].pc = "idle"
    /\ \E id \in RespondIds, decision \in Decisions :
           LET loaded == loadPendingApproval(id)
               started == [resp[p] EXCEPT
                              !.id = id, !.decision = decision,
                              !.late = id \in ApprovalIds /\ DeliveredBefore(id),
                              !.expired = id \in ApprovalIds /\ pending[id].exists
                                              /\ now > pending[id].ExpiresAtUnix]
           IN  IF id = <<>>
               THEN /\ resp' = [resp EXCEPT ![p] = [Idle EXCEPT !.pc = "done",
                                                               !.err = ErrNoId]]
                    /\ UNCHANGED notifier
               ELSE IF loaded.err # ErrNone
               THEN /\ resp' = [resp EXCEPT ![p] = [Idle EXCEPT !.pc = "done",
                                                               !.err = loaded.err,
                                                               !.late = started.late]]
                    /\ Notifies
               ELSE /\ resp' = [resp EXCEPT ![p] = [started EXCEPT !.pc = "check",
                                                                  !.item = loaded.item]]
                    /\ UNCHANGED notifier
    /\ UNCHANGED <<patchVars, installVars, now, pending, delivered>>

(* time.Now().Unix() > pending.ExpiresAtUnix *)
respondCheck(p) ==
    /\ resp[p].pc = "check"
    /\ IF now > resp[p].item.ExpiresAtUnix
       THEN /\ deletePendingApproval(resp[p].id)
            /\ Notifies
            /\ RespondReturns(p, ErrExpired)
       ELSE /\ resp' = [resp EXCEPT ![p].pc = "deliver"]
            /\ UNCHANGED <<pending, notifier>>
    /\ UNCHANGED <<patchVars, installVars, now, delivered>>

(* a.approvalExecutor.Deliver(pending.ParentPID, decision); the executor
   returns an error or not. *)
respondDeliver(p) ==
    /\ resp[p].pc = "deliver"
    /\ \E ok \in BOOLEAN :
           /\ delivered' = Append(delivered,
                                  [id |-> resp[p].id, late |-> resp[p].late,
                                   expired |-> resp[p].expired, ok |-> ok])
           /\ IF ok THEN resp' = [resp EXCEPT ![p].pc = "delete"] /\ UNCHANGED notifier
              ELSE Notifies /\ RespondReturns(p, ErrDeliver)
    /\ UNCHANGED <<patchVars, installVars, now, pending>>

(* After the delivery: the approval's file is deleted and the user told. *)
respondDelete(p) ==
    /\ resp[p].pc = "delete"
    /\ deletePendingApproval(resp[p].id)
    /\ Notifies
    /\ RespondReturns(p, ErrNone)
    /\ UNCHANGED <<patchVars, installVars, now, delivered>>

runRespond(p) == respondLoad(p) \/ respondCheck(p) \/ respondDeliver(p) \/ respondDelete(p)

(* Respond invocations running at the same time, CC_NOTIFY_MODE not set. *)
NextRespond == Tick \/ createPendingApproval \/ \E p \in Responders : runRespond(p)

SpecRespond == InitRespond /\ [][NextRespond]_vars

(* One respond invocation, with CC_NOTIFY_MODE set to any of the values. *)
InitNotify ==
    /\ tool = "none"
    /\ doc = <<>>
    /\ last = NoCall
    /\ prev = NoCall
    /\ file = [t \in {"codex", "claude"} |-> Missing(t)]
    /\ initial = file
    /\ proc = <<>>
    /\ now = 0
    /\ pending = [id \in ApprovalIds |-> NoFile]
    /\ delivered = <<>>
    /\ resp = [p \in {1} |-> Idle]
    /\ \E raw \in RawModes : notifier = NewWithConfig(raw)

NextNotify == Tick \/ createPendingApproval \/ \E p \in DOMAIN resp : runRespond(p)

SpecNotify == InitNotify /\ [][NextNotify]_vars

----------------------------------------------------------------------------
(* Properties of the notifier and of the respond command *)

(* C23: in auto mode Notify attempts the toast first, attempts the popup only
   when the toast attempt failed, and returns an error only when both
   attempts failed; in toast mode and in popup mode it makes the one attempt
   of the mode and returns an error exactly when that attempt failed. *)
C23_FallbackOnlyInAuto ==
    notifier.called
        => LET a == notifier.attempts
           IN  /\ Len(a) \in {1, 2}
               /\ notifier.mode = modeAuto
                      => /\ a[1].script = "toast"
                         /\ Len(a) = 2 <=> a[1].failed
                         /\ Len(a) = 2 => a[2].script = "popup"
                         /\ notifier.err # ErrNone <=> (Len(a) = 2 /\ a[1].failed /\ a[2].failed)
               /\ notifier.mode = modeToast
                      => /\ Len(a) = 1 /\ a[1].script = "toast"
                         /\ notifier.err # ErrNone <=> a[1].failed
               /\ notifier.mode = modePopup
                      => /\ Len(a) = 1 /\ a[1].script = "popup"
                         /\ notifier.err # ErrNone <=> a[1].failed

C23_Witness ==
    /\ notifier.called
    /\ notifier.raw = <<"t", "o", "p">>
    /\ notifier.mode = modeAuto
    /\ notifier.attempts = <<Attempt("toast", TRUE), Attempt("popup", FALSE)>>
    /\ notifier.err = ErrNone
    /\ resp[1].pc = "done" /\ resp[1].err = ErrNone

(* C29: after a respond has delivered the decision for an approval id, a
   respond started for the same id fails with an error and does not call the
   approval executor; a respond for an approval whose expiry time has passed
   does not call the executor either. *)
C29_DeliveredAtMostOnce ==
    /\ \A k \in 1..Len(delivered) : ~delivered[k].late /\ ~delivered[k].expired
    /\ \A p \in DOMAIN resp :
           (resp[p].pc = "done" /\ resp[p].late) => resp[p].err # ErrNone

----------------------------------------------------------------------------
(* Properties of the TOML patcher *)

LinesOf(content) == splitLines(stripBOM(content).content)

RootLines(content) ==
    LET lines == LinesOf(content) IN SubSeq(lines, 1, firstTableIndex(lines))

(* The lines from the first table header on. *)
TableTail(content) ==
    LET lines == LinesOf(content) IN SubSeq(lines, firstTableIndex(lines) + 1, Len(lines))

IsSuffix(t, s) == Len(t) <= Len(s) /\ SubSeq(s, Len(s) - Len(t) + 1, Len(s)) = t

(* The 0-based start lines of the notify assignments of the root region, each
   searched for after the end of the one before it. *)
RECURSIVE notifyStarts(_, _)
notifyStarts(rootLines, from) ==
    LET starts == {i \in from..(Len(rootLines) - 1) :
                       isNotifyAssignmentStart(rootLines[i + 1])}
    IN  IF starts = {} THEN <<>>
        ELSE LET i == Min(starts)
                 r == continueScan(rootLines,
                                   scan(assignmentState, afterEquals(rootLines[i + 1])),
                                   i + 1)
             IN  <<i>> \o notifyStarts(rootLines, r.end)

TopLevelNotifyCount(content) == Len(notifyStarts(RootLines(content), 0))

(* The tracker after the assignment starting at 0-based line i has been
   scanned through 0-based line e. *)
RECURSIVE scanThrough(_, _, _)
scanThrough(lines, i, e) ==
    IF e = i THEN scan(assignmentState, afterEquals(lines[i + 1]))
    ELSE scan(scanThrough(lines, i, e - 1), lines[e + 1])

NeverCloses(lines, i) ==
    \A e \in i..(Len(lines) - 1) : needsContinuation(scanThrough(lines, i, e))

HasUnterminatedNotify(content) ==
    LET starts == notifyStarts(RootLines(content), 0)
    IN  \E k \in 1..Len(starts) : NeverCloses(LinesOf(content), starts[k])

TomlOps == {"UpsertNotify", "RemoveNotify"}
JsonOps == {"ClaudeUpsertHook", "ClaudeRemoveHook"}

Succeeded(call, ops) == call.op \in ops /\ call.err = ErrNone

(* C1: a successful UpsertNotify followed by UpsertNotify on the returned
   content with the same command returns that content unchanged and reports
   changed = false. *)
C1_UpsertIdempotent ==
    (prev.op = "UpsertNotify" /\ last.op = "UpsertNotify")
        => /\ last.input = prev.out
           /\ last.arg = prev.arg
           /\ last.err = ErrNone
           /\ last.changed = FALSE
           /\ last.out = prev.out

C1_Witness ==
    /\ prev.op = "UpsertNotify" /\ prev.changed
    /\ last.op = "UpsertNotify" /\ ~last.changed /\ last.out = prev.out
    /\ TableTail(prev.input) # <<>>

(* C2: after a successful UpsertNotify the returned document has exactly one
   top-level notify assignment, however many the input had. *)
C2_ExactlyOneNotify ==
    (last.op = "UpsertNotify" /\ last.err = ErrNone) => TopLevelNotifyCount(last.out) = 1

(* C3: for a document with a table, a successful UpsertNotify or RemoveNotify
   returns a document whose last lines are the input's first table header
   line and all lines after it, unchanged and in order. *)
C3_TableLinesKept ==
    (Succeeded(last, TomlOps) /\ TableTail(last.input) # <<>>)
        => IsSuffix(TableTail(last.input), LinesOf(last.out))

C3_Witness ==
    /\ last.op = "RemoveNotify" /\ last.changed
    /\ Len(TableTail(last.input)) >= 2
    /\ Len(LinesOf(last.out)) = Len(TableTail(last.input))
    /\ \E i \in 1..Len(TableTail(last.input)) : TableTail(last.input)[i] = <<>>

(* C6: when the document has a top-level notify assignment that never closes
   before the input ends, UpsertNotify and RemoveNotify return an error, empty
   content and changed = false. *)
C6_UnterminatedFailsClosed ==
    (last.op \in TomlOps /\ HasUnterminatedNotify(last.input))
        => /\ last.err # ErrNone
           /\ last.out = <<>>
           /\ last.changed = FALSE

(* C9: when the input starts with the byte-order mark, every output returned
   without error by UpsertNotify or RemoveNotify starts with it too. *)
C9_BOMKept ==
    (Succeeded(last, TomlOps) /\ HasPrefix(last.input, <<BOM>>)) => HasPrefix(last.out, <<BOM>>)

C9_Witness ==
    /\ last.op = "RemoveNotify" /\ last.changed
    /\ HasPrefix(last.input, <<BOM>>)
    /\ last.out = <<BOM>>

(* The span findTopLevelNotify matches in a content. *)
MatchedSpan(content) == findTopLevelNotify(RootLines(content))

(* The lines of a content with its matched span replaced by one line. *)
SpanReplaced(content, line) ==
    LET lines == LinesOf(content)
        f == MatchedSpan(content)
    IN  SubSeq(lines, 1, f.start) \o <<line>> \o SubSeq(lines, f.end + 1, Len(lines))

(* A content's byte-order mark, then the lines, each followed by the line
   terminator detected in the content. *)
Rejoined(content, lines) ==
    stripBOM(content).bom \o joinLines(lines, detectNewline(stripBOM(content).content))

ReplacedByRendered(call) ==
    /\ call.err = ErrNone
    /\ call.changed
    /\ call.out = Rejoined(call.input, SpanReplaced(call.input, renderNotifyLine(call.arg)))

(* C13: when the input has a complete top-level notify assignment that is not
   the rendered line, UpsertNotify reports changed = true and the output's
   lines are the input's with the matched span replaced by the rendered line. *)
C13_SpanReplaced ==
    (last.op = "UpsertNotify" /\ last.arg # <<>> /\ MatchedSpan(last.input).found
         /\ ~(LET f == MatchedSpan(last.input)
              IN  f.end - f.start = 1
                      /\ LinesOf(last.input)[f.start + 1] = renderNotifyLine(last.arg)))
        => ReplacedByRendered(last)

(* C13 as amended: the same, for an assignment that is not the rendered line
   with or without white space around it. *)
C13_SpanReplacedUnlessRenderedModuloSpace ==
    (last.op = "UpsertNotify" /\ last.arg # <<>> /\ MatchedSpan(last.input).found
         /\ ~(LET f == MatchedSpan(last.input)
              IN  f.end - f.start = 1
                      /\ TrimSpace(LinesOf(last.input)[f.start + 1])
                             = renderNotifyLine(last.arg)))
        => ReplacedByRendered(last)

C13_Witness ==
    /\ last.op = "UpsertNotify"
    /\ MatchedSpan(last.input).found
    /\ MatchedSpan(last.input).start = 1
    /\ MatchedSpan(last.input).end = 3
    /\ ReplacedByRendered(last)
    /\ Len(LinesOf(last.out)) = 2

(* The first line of a content is a table header. *)
StartsWithTable(content) ==
    /\ Len(LinesOf(content)) > 0
    /\ HasPrefix(TrimSpace(LinesOf(content)[1]), <<"[">>)

(* C14: when the first line of the input is a table header, so that no notify
   assignment is top-level, UpsertNotify reports changed = true and returns
   the rendered line, one blank line, and then the input's lines unchanged. *)
C14_InsertedBeforeLeadingTable ==
    (last.op = "UpsertNotify" /\ last.arg # <<>> /\ StartsWithTable(last.input))
        => /\ last.err = ErrNone
           /\ last.changed
           /\ last.out = Rejoined(last.input,
                                  <<renderNotifyLine(last.arg), <<>> >> \o LinesOf(last.input))

C14_Witness ==
    /\ last.op = "UpsertNotify" /\ last.changed
    /\ StartsWithTable(last.input)
    /\ Len(LinesOf(last.input)) = 2
    /\ \E i \in 1..2 : isNotifyAssignmentStart(LinesOf(last.input)[i])
    /\ Len(LinesOf(last.out)) = 4
    /\ LinesOf(last.out)[2] = <<>>

(* A content without the byte-order mark and the last line terminator. *)
Unterminated(content) ==
    TrimSuffix(ReplaceAll(stripBOM(content).content, CRLF, <<LF>>), <<LF>>)

(* C15: RemoveNotify applied to what UpsertNotify returned for a document
   without lines and a non-empty command reports changed = true, removes the
   one line that was inserted and returns a document without lines, as the
   first one was. *)
C15_RemoveUndoesUpsertOfEmpty ==
    (prev.op = "UpsertNotify" /\ LinesOf(prev.input) = <<>> /\ last.op = "RemoveNotify")
        => /\ prev.err = ErrNone /\ prev.changed
           /\ LinesOf(last.input) = <<renderNotifyLine(prev.arg)>>
           /\ last.err = ErrNone /\ last.changed
           /\ MatchedSpan(last.input) = [start |-> 0, end |-> 1, found |-> TRUE, err |-> FALSE]
           /\ Unterminated(last.out) = <<>>
           /\ Unterminated(last.out) = Unterminated(prev.input)
           /\ stripBOM(last.out).bom = stripBOM(prev.input).bom

C15_Witness ==
    /\ prev.op = "UpsertNotify" /\ prev.input = <<BOM>> \o CRLF
    /\ prev.arg[1] = <<QUOTE, "]">>
    /\ last.op = "RemoveNotify" /\ last.changed
    /\ last.out = <<BOM>>

(* C16: when no line before the first table header starts a notify
   assignment, RemoveNotify returns its input, byte for byte, and reports
   changed = false. *)
C16_RemoveWithoutNotifyIsNoOp ==
    (last.op = "RemoveNotify"
         /\ \A i \in 1..Len(RootLines(last.input)) :
                ~isNotifyAssignmentStart(RootLines(last.input)[i]))
        => /\ last.err = ErrNone
           /\ last.changed = FALSE
           /\ last.out = last.input

C16_Witness ==
    /\ last.op = "RemoveNotify" /\ prev.op = "none"
    /\ last.out = last.input /\ ~last.changed
    /\ HasPrefix(last.input, <<BOM>>)
    /\ ~HasSuffix(last.input, <<LF>>)
    /\ Len(RootLines(last.input)) = 1
    /\ \E i \in 1..Len(TableTail(last.input)) :
           isNotifyAssignmentStart(TableTail(last.input)[i])

(* The line terminator a call detects in its input, and what it returned
   without the byte-order mark. *)
NewlineOf(call) == detectNewline(stripBOM(call.input).content)

BodyOf(call) == stripBOM(call.out).content

(* The pieces of a returned content between the occurrences of the detected
   terminator, the one at the end apart. *)
PiecesOf(call) ==
    Split(ReplaceAll(TrimSuffix(BodyOf(call), NewlineOf(call)), NewlineOf(call), <<"NL">>),
          "NL")

(* The returned content ends with the detected terminator, and what lies
   between the terminators are lines of the input, the rendered line or
   empty lines: no line is joined to the next in another way. *)
TerminatedThroughout(call) ==
    /\ HasSuffix(BodyOf(call), NewlineOf(call))
    /\ \A i \in 1..Len(PiecesOf(call)) :
           \/ PiecesOf(call)[i] = <<>>
           \/ \E j \in 1..Len(LinesOf(call.input)) :
                  PiecesOf(call)[i] = LinesOf(call.input)[j]
           \/ call.op = "UpsertNotify" /\ PiecesOf(call)[i] = renderNotifyLine(call.arg)

(* C17: every content UpsertNotify or RemoveNotify returns with changed = true
   ends with the line terminator detected in the input, and every line of it
   is followed by that terminator. *)
C17_TerminatedInConvention ==
    (Succeeded(last, TomlOps) /\ last.changed) => TerminatedThroughout(last)

(* C17 as amended: the same for every returned content that has a line; when
   RemoveNotify removes all the lines there are, the returned content is
   empty but for the byte-order mark. *)
C17_TerminatedUnlessEmptied ==
    (Succeeded(last, TomlOps) /\ last.changed)
        => \/ TerminatedThroughout(last)
           \/ last.op = "RemoveNotify" /\ BodyOf(last) = <<>>

C17_Witness ==
    /\ last.op = "RemoveNotify" /\ last.changed
    /\ NewlineOf(last) = CRLF
    /\ \E i \in 2..Len(last.input) : last.input[i] = LF /\ last.input[i - 1] # CR
    /\ Len(PiecesOf(last)) = 2
    /\ TerminatedThroughout(last)

(* C22: UpsertNotify with an empty command list returns the error of the
   empty command, empty content and changed = false, whatever the input is,
   also one whose notify assignment never closes; the document is left as it
   was. *)
C22_EmptyCommandRejected ==
    (last.op = "UpsertNotify" /\ last.arg = <<>>)
        => /\ last.err = ErrEmptyCommand
           /\ last.out = <<>>
           /\ last.changed = FALSE
           /\ doc = last.input

C22_Witness ==
    /\ last.op = "UpsertNotify" /\ last.arg = <<>>
    /\ last.err = ErrEmptyCommand /\ last.out = <<>> /\ ~last.changed
    /\ HasUnterminatedNotify(last.input)
    /\ HasPrefix(last.input, <<BOM>>)

(* The tracker before 0-based line i of a document, when every line that is
   not the continuation of a value is scanned from after its = on. *)
RECURSIVE valueStateBefore(_, _)
valueStateBefore(lines, i) ==
    IF i = 0 THEN assignmentState
    ELSE LET before == valueStateBefore(lines, i - 1)
         IN  IF needsContinuation(before)
             THEN scan(before, lines[i])
             ELSE scan(assignmentState, afterEquals(lines[i]))

(* The 0-based index of the first line that begins with [ and is not inside
   a string or an array value; the number of lines when there is none. *)
FirstHeaderOutsideValues(lines) ==
    LET headers == {i \in 0..(Len(lines) - 1) :
                        /\ ~needsContinuation(valueStateBefore(lines, i))
                        /\ HasPrefix(TrimSpace(lines[i + 1]), <<"[">>)}
    IN  IF headers = {} THEN Len(lines) ELSE Min(headers)

(* C24: the root region UpsertNotify and RemoveNotify search ends at the
   first table header; a line that begins with [ inside an array value or a
   string, such as a row of a multi-line array, is not taken for it. *)
C24_RootEndsAtFirstHeader ==
    last.op \in TomlOps
        => firstTableIndex(LinesOf(last.input)) = FirstHeaderOutsideValues(LinesOf(last.input))

IsBlank(line) == TrimSpace(line) = <<>>

(* The lines RemoveNotify is to return for a content with a matched span: the
   lines before the span as they are, and the lines after it, without the
   blank lines at their head when nothing but blank lines comes before the
   span (those are the blank lines the deletion made leading). *)
SpanDeleted(content) ==
    LET lines == LinesOf(content)
        f == MatchedSpan(content)
        before == SubSeq(lines, 1, f.start)
        after == SubSeq(lines, f.end + 1, Len(lines))
    IN  IF \A i \in 1..Len(before) : IsBlank(before[i])
        THEN before \o trimLeadingBlankLines(after)
        ELSE before \o after

(* C25: when RemoveNotify finds a top-level notify assignment, the lines it
   returns are the input's lines without the matched span and without the
   blank lines that the deletion made leading; every other line is kept in
   order, also the blank lines that were at the top of the file before. *)
C25_RemoveFrame ==
    (Succeeded(last, {"RemoveNotify"}) /\ MatchedSpan(last.input).found)
        => /\ last.changed
           /\ LinesOf(last.out) = SpanDeleted(last.input)

----------------------------------------------------------------------------
(* Properties of the assignment state tracker *)

(* C26: a # outside any string ends the scan of the line: what comes after it
   changes neither the bracket depth nor the string state.  A # inside a
   string is an ordinary character: the line is scanned as if another
   character stood there, and what comes after it is scanned. *)
C26_CommentEndsScanOutsideStrings ==
    last.op = "scan"
        => \A i \in 1..Len(last.input) :
               last.input[i] = "#"
                   => LET upTo == scan(last.arg, SubSeq(last.input, 1, i - 1))
                      IN  IF upTo.inString
                          THEN last.out = scan(last.arg, [last.input EXCEPT ![i] = "a"])
                          ELSE last.out = upTo

C26_Witness ==
    /\ last.op = "scan"
    /\ last.arg = [inString |-> TRUE, escape |-> FALSE, bracketDepth |-> 1]
    /\ last.input = <<"#", QUOTE, "]">>
    /\ last.out = assignmentState

(* C27: after any sequence of scanned lines the bracket depth is not
   negative, an escape is pending only inside a string, and
   needsContinuation is true exactly when a string is open or the bracket
   depth is positive. *)
C27_TrackerInvariant ==
    last.op = "scan"
        => /\ last.out.bracketDepth >= 0
           /\ last.out.escape => last.out.inString
           /\ needsContinuation(last.out)
                  <=> (last.out.inString \/ last.out.bracketDepth > 0)
           /\ (last.arg.bracketDepth = 0 /\ ~last.arg.inString /\ last.input = <<"]">>)
                  => last.out.bracketDepth = 0

C27_Witness ==
    /\ last.op = "scan"
    /\ last.arg = assignmentState
    /\ last.input = <<"]", QUOTE, BSLASH>>
    /\ last.out = [inString |-> TRUE, escape |-> TRUE, bracketDepth |-> 0]
    /\ needsContinuation(last.out)

(* C30: when the search finds a top-level notify assignment, its span
   start..end-1 is not empty and lies before the first table header: the
   tracker is closed after line end-1 and open after every earlier line of
   the span, no line of the span after the first begins with [, and the
   lines from the first table header on are the last lines of what
   UpsertNotify and RemoveNotify return without error. *)
C30_SpanWithinRoot ==
    (last.op \in TomlOps /\ MatchedSpan(last.input).found)
        => LET lines == LinesOf(last.input)
               f == MatchedSpan(last.input)
               firstTable == firstTableIndex(lines)
           IN  /\ 0 <= f.start /\ f.start < f.end
               /\ f.end <= firstTable /\ firstTable <= Len(lines)
               /\ ~needsContinuation(scanThrough(lines, f.start, f.end - 1))
               /\ \A e \in f.start..(f.end - 2) :
                      needsContinuation(scanThrough(lines, f.start, e))
               /\ \A i \in (f.start + 2)..f.end : ~HasPrefix(TrimSpace(lines[i]), <<"[">>)
               /\ last.err = ErrNone
                      => IsSuffix(SubSeq(lines, firstTable + 1, Len(lines)),
                                  LinesOf(last.out))

C30_Witness ==
    /\ last.op = "UpsertNotify" /\ last.changed
    /\ MatchedSpan(last.input) = [start |-> 0, end |-> 2, found |-> TRUE, err |-> FALSE]
    /\ firstTableIndex(LinesOf(last.input)) = 2
    /\ Len(LinesOf(last.input)) = 3
    /\ LinesOf(last.out) = <<renderNotifyLine(last.arg), LinesOf(last.input)[3]>>

----------------------------------------------------------------------------
(* Properties of the JSON patcher *)

(* The raw matcher groups of an event of a settings text. *)
GroupsIn(content, event) ==
    IF content.kind = "object" /\ content.hooks.kind = "object"
           /\ content.hooks.events[event].kind = "list"
    THEN content.hooks.events[event].items
    ELSE <<>>

RECURSIVE Flatten(_)
Flatten(groups) ==
    IF Len(groups) = 0 THEN <<>> ELSE groups[1].hooks.items \o Flatten(Tail(groups))

EntriesIn(content, event) == Flatten(GroupsIn(content, event))

(* The commands this program registers. *)
RegisteredCommands == {buildNotifyCommand(p) : p \in ExePaths \cup {ExeOld}}

RegisteredIn(content, event) ==
    SelectSeq(EntriesIn(content, event), LAMBDA e : e.command \in RegisteredCommands)

IsForeignEntry(e) == ~Contains(e.command, claudeHookMarker)

(* The foreign entries of an event, group by group: for every matcher group
   with a foreign entry, its matcher and its foreign entries in order. *)
RECURSIVE ForeignGroupsOf(_)
ForeignGroupsOf(groups) ==
    IF Len(groups) = 0 THEN <<>>
    ELSE LET foreign == SelectSeq(groups[1].hooks.items, IsForeignEntry)
         IN  (IF Len(foreign) > 0
              THEN <<[matcher |-> groups[1].matcher, entries |-> foreign]>>
              ELSE <<>>)
                 \o ForeignGroupsOf(Tail(groups))

ForeignGroups(content, event) == ForeignGroupsOf(GroupsIn(content, event))

IsPrefix(t, s) == Len(t) <= Len(s) /\ SubSeq(s, 1, Len(t)) = t

EventSet == {HookEvents[i] : i \in 1..Len(HookEvents)}

(* C4: after every successful ClaudeUpsertHook, whatever calls came before,
   each of Stop and Notification holds exactly one entry registered by this
   program, the one for the path of this call. *)
C4_SingleRegistration ==
    Succeeded(last, {"ClaudeUpsertHook"})
        => \A ev \in EventSet :
               RegisteredIn(last.out, ev)
                   = <<[type |-> "command", command |-> buildNotifyCommand(last.arg),
                        extra |-> FALSE]>>

(* C5: ClaudeUpsertHook and ClaudeRemoveHook leave every foreign entry of Stop
   and Notification in place: same content, same matcher group, same order. *)
C5_ForeignEntriesKept ==
    Succeeded(last, JsonOps)
        => \A ev \in EventSet :
               IsPrefix(ForeignGroups(last.input, ev), ForeignGroups(last.out, ev))

(* C10: each of the four patcher functions reports changed = false and returns
   the input untouched when nothing needed to change, and reports
   changed = true only when the returned content differs from the input. *)
C10_ChangedIffDiffers ==
    Succeeded(last, TomlOps \cup JsonOps) => (last.changed <=> last.out # last.input)

(* C10 as amended: UpsertNotify, RemoveNotify and ClaudeRemoveHook report
   changed = true exactly when the returned content differs from the input;
   ClaudeUpsertHook reports changed = true on every successful call, also
   when it returns its input. *)
C10_ChangedIffDiffersButHookUpsert ==
    /\ Succeeded(last, TomlOps \cup {"ClaudeRemoveHook"})
           => (last.changed <=> last.out # last.input)
    /\ Succeeded(last, {"ClaudeUpsertHook"}) => last.changed

C10_Witness ==
    /\ Succeeded(prev, {"ClaudeUpsertHook"})
    /\ Succeeded(last, {"ClaudeUpsertHook"})
    /\ last.changed
    /\ last.out = last.input

(* C11: every successful ClaudeUpsertHook reports changed = true, also the
   call that returns a content identical to its input. *)
C11_UpsertHookAlwaysChanged ==
    Succeeded(last, {"ClaudeUpsertHook"}) => last.changed = TRUE

C11_Witness ==
    /\ Succeeded(prev, {"ClaudeUpsertHook"})
    /\ prev.out # prev.input
    /\ Succeeded(last, {"ClaudeUpsertHook"})
    /\ last.arg = prev.arg
    /\ last.out = last.input
    /\ last.changed

(* The entries of an event are all this program's: every matcher group has
   entries, and each of them has the marker in its command. *)
OnlyOurEntries(content, event) ==
    /\ Len(GroupsIn(content, event)) > 0
    /\ \A i \in 1..Len(GroupsIn(content, event)) :
           LET items == GroupsIn(content, event)[i].hooks.items
           IN  /\ Len(items) > 0
               /\ \A j \in 1..Len(items) : ~IsForeignEntry(items[j])

(* The keys of the hooks object of a settings text. *)
EventKeys(content) ==
    IF content.kind = "object" /\ content.hooks.kind = "object"
    THEN {e \in DOMAIN content.hooks.events : content.hooks.events[e].kind # "absent"}
    ELSE {}

(* C18: after a ClaudeRemoveHook that changed the settings, an event all of
   whose entries were this program's is no key of hooks any more, and hooks
   is not left in the settings as an object without keys. *)
C18_EmptiedKeysDeleted ==
    (Succeeded(last, {"ClaudeRemoveHook"}) /\ last.changed)
        => /\ \A ev \in EventSet :
                  OnlyOurEntries(last.input, ev) => ev \notin EventKeys(last.out)
           /\ EventKeys(last.out) = {} => last.out.hooks.kind = "absent"

C18_Witness ==
    /\ Succeeded(last, {"ClaudeRemoveHook"}) /\ last.changed /\ prev.op = "none"
    /\ OnlyOurEntries(last.input, "Stop")
    /\ Len(GroupsIn(last.input, "Stop")) = 2
    /\ EventKeys(last.input) = {"Stop"}
    /\ last.out.hooks.kind = "absent"

(* What a settings text holds besides hooks and its Stop and Notification
   events: the unrelated top-level keys and the unrelated event. *)
UnrelatedOf(content) ==
    [other |-> content.kind = "object" /\ content.other,
     PreToolUse |-> IF content.kind = "object" /\ content.hooks.kind = "object"
                    THEN content.hooks.events.PreToolUse
                    ELSE RawAbsent]

(* C19: after every successful ClaudeUpsertHook and ClaudeRemoveHook the
   top-level keys other than hooks, and the events of hooks other than Stop
   and Notification, have the values they had in the input. *)
C19_UnrelatedKeysPassThrough ==
    Succeeded(last, JsonOps) => UnrelatedOf(last.out) = UnrelatedOf(last.input)

C19_Witness ==
    /\ Succeeded(prev, {"ClaudeUpsertHook"}) /\ prev.input.form = "orig"
    /\ Succeeded(last, {"ClaudeRemoveHook"}) /\ last.changed
    /\ UnrelatedOf(prev.input) = [other |-> TRUE, PreToolUse |-> RawPresent]
    /\ UnrelatedOf(last.out) = UnrelatedOf(prev.input)
    /\ EventKeys(last.out) = {"PreToolUse"}

(* An event of a settings text has an entry with the marker in its command. *)
HasOurEntry(content, event) ==
    \E i \in 1..Len(EntriesIn(content, event)) :
        ~IsForeignEntry(EntriesIn(content, event)[i])

(* C20: a ClaudeRemoveHook that succeeds on settings in which neither Stop nor
   Notification has an entry with the marker in its command returns the
   input as it is, not serialized again, and reports changed = false. *)
C20_RemoveHookWithoutOursIsNoOp ==
    (Succeeded(last, {"ClaudeRemoveHook"})
         /\ \A ev \in EventSet : ~HasOurEntry(last.input, ev))
        => /\ last.changed = FALSE
           /\ last.out = last.input

C20_Witness ==
    /\ Succeeded(last, {"ClaudeRemoveHook"}) /\ prev.op = "none"
    /\ ~last.changed
    /\ last.input.form = "orig"
    /\ last.out = last.input
    /\ Len(EntriesIn(last.input, "Stop")) = 2
    /\ \E i \in 1..2 : EntriesIn(last.input, "Stop")[i].extra
    /\ EventKeys(last.input) = {"Stop", "Notification", "PreToolUse"}

(* The matcher group ClaudeUpsertHook appends for an executable path. *)
NewGroup(exePath) ==
    [matcher |-> <<>>, extra |-> FALSE,
     hooks |-> [kind |-> "list",
                items |-> <<[type |-> "command", command |-> buildNotifyCommand(exePath),
                             extra |-> FALSE]>>]]

(* The call failed closed: an error, the empty string and changed = false. *)
FailedClosed(call) ==
    /\ call.err # ErrNone
    /\ call.out = EmptyContent
    /\ call.changed = FALSE

(* The call did what it does for the settings {}: ClaudeUpsertHook returned
   an object whose only key is hooks, with the new group alone in both
   events; ClaudeRemoveHook returned its input. *)
TreatedAsEmptyObject(call) ==
    /\ call.err = ErrNone
    /\ call.op = "ClaudeUpsertHook"
           => /\ call.out.kind = "object" /\ ~call.out.other
              /\ EventKeys(call.out) = EventSet
              /\ \A ev \in EventSet : GroupsIn(call.out, ev) = <<NewGroup(call.arg)>>
    /\ call.op = "ClaudeRemoveHook" => call.out = call.input /\ ~call.changed

(* C21: ClaudeUpsertHook and ClaudeRemoveHook return an error, empty content
   and changed = false for every content that is not empty, not white space
   and not a JSON object; empty and white-space content is treated as the
   empty object and succeeds. *)
C21_NonObjectFailsClosed ==
    last.op \in JsonOps
        => /\ last.input.kind \in {"malformed", "null"} => FailedClosed(last)
           /\ last.input.kind \in {"empty", "space"} => TreatedAsEmptyObject(last)

(* C21 as amended: the content that fails is the one json.Unmarshal cannot
   decode into a map; the JSON text null decodes, and is treated as the empty
   object like empty and white-space content. *)
C21_UndecodableFailsClosed ==
    last.op \in JsonOps
        => /\ last.input.kind = "malformed" => FailedClosed(last) /\ last.err = ErrParse
           /\ last.input.kind \in {"empty", "space", "null"} => TreatedAsEmptyObject(last)

C21_Witness ==
    /\ last.op = "ClaudeUpsertHook"
    /\ last.input.kind = "malformed"
    /\ FailedClosed(last)
    /\ doc = last.input

(* A JSON object whose hooks key is absent or null, or an object whose Stop
   and Notification keys are absent, null or lists, one of them absent,
   null or the empty list. *)
MissingStructure(content) ==
    /\ content.kind = "object"
    /\ \/ content.hooks.kind \in {"absent", "null"}
       \/ /\ content.hooks.kind = "object"
          /\ \A ev \in EventSet : content.hooks.events[ev].kind \in {"absent", "null", "list"}
          /\ \E ev \in EventSet : GroupsIn(content, ev) = <<>>

(* C28: for settings that are a JSON object with hooks absent, null or empty,
   or with the Stop or Notification list absent, null or empty,
   ClaudeUpsertHook returns without error and without a panic, and in the
   returned settings both Stop and Notification end with the matcher group
   of this call. *)
C28_MissingStructureDefaultsToEmpty ==
    (last.op = "ClaudeUpsertHook" /\ MissingStructure(last.input))
        => /\ last.err = ErrNone
           /\ \A ev \in EventSet :
                  /\ GroupsIn(last.out, ev) # <<>>
                  /\ GroupsIn(last.out, ev)[Len(GroupsIn(last.out, ev))] = NewGroup(last.arg)

----------------------------------------------------------------------------
(* Properties of the install and uninstall commands *)

(* What the patcher of a command and tool returns for a content. *)
Patched(cmd, t, exePath, content) ==
    IF cmd = "install"
    THEN IF t = "codex" THEN UpsertNotify(content, <<exePath, NotifyArg>>)
         ELSE ClaudeUpsertHook(content, exePath)
    ELSE IF t = "codex" THEN RemoveNotify(content)
         ELSE ClaudeRemoveHook(content)

(* Invocation p takes the step that follows the return of its patcher. *)
PatchStep(p) == proc[p].pc = "patch" /\ proc'[p] # proc[p]

(* C7: when the patcher called by an install or uninstall command, for either
   tool, returns an error or changed = false, the step of the command that
   follows leaves every config file as it was. *)
C7_NothingWrittenOnErrorOrNoChange ==
    [][\A p \in DOMAIN proc :
           PatchStep(p) =>
               LET r == Patched(proc[p].cmd, Head(proc[p].todo), proc[p].exePath,
                                proc[p].content)
               IN  (r.err # ErrNone \/ ~r.changed) => file' = file]_vars

C7_Witness ==
    \E p, q \in DOMAIN proc :
        /\ proc[p].outcome = "error"
        /\ proc[q].outcome = "unchanged"
        /\ file = initial

(* The config file of a tool holds a registration of this program: a top-level
   notify assignment, or a Stop or Notification entry whose command contains
   the marker. *)
HasRegistration(t) ==
    /\ file[t].exists
    /\ IF t = "codex" THEN TopLevelNotifyCount(file[t].content) >= 1
       ELSE \E ev \in EventSet :
                \E i \in 1..Len(EntriesIn(file[t].content, ev)) :
                    Contains(EntriesIn(file[t].content, ev)[i].command, claudeHookMarker)

(* C12: starting without config files, whenever the install and uninstall
   commands run so far have all returned, the config file of each tool holds
   this program's registration exactly when the command last run for that
   tool was install. *)
C12_RegisteredIffLastRunInstall ==
    \A p \in DOMAIN proc :
        proc[p].todo = <<>>
            => \A t \in {"codex", "claude"} :
                   HasRegistration(t) <=> proc[p].ran[t] = "install"

C12_Witness ==
    \E p \in DOMAIN proc :
        /\ proc[p].todo = <<>>
        /\ proc[p].cmd = "install" /\ proc[p].target = "codex"
        /\ proc[p].ran = [codex |-> "install", claude |-> "uninstall"]
        /\ HasRegistration("codex")
        /\ file.claude.exists /\ ~HasRegistration("claude")
        /\ proc[p].outcome = "unchanged"

(* The files after the functions of one invocation ran with no other
   invocation between its reads and writes, from its i-th tool on. *)
RECURSIVE RunAlone(_, _, _)
RunAlone(f, inv, i) ==
    IF i > Len(Todo(inv.target)) THEN f
    ELSE LET t == Todo(inv.target)[i]
             r == Patched(inv.cmd, t, inv.exePath, f[t].content)
         IN  IF (inv.cmd = "uninstall" /\ ~f[t].exists) \/ r.err # ErrNone \/ ~r.changed
             THEN RunAlone(f, inv, i + 1)
             ELSE RunAlone([f EXCEPT ![t] = Present(r.content)], inv, i + 1)

RECURSIVE RunInOrder(_, _, _)
RunInOrder(f, order, i) ==
    IF i > Len(order) THEN f
    ELSE RunInOrder(RunAlone(f, proc[order[i]], 1), order, i + 1)

Orders == {order \in [Procs -> Procs] : \A p \in Procs : \E i \in Procs : order[i] = p}

AllReturned == proc # <<>> /\ \A p \in DOMAIN proc : proc[p].todo = <<>>

(* C8: when the concurrent invocations have all returned, the config files
   are what running the invocations one after the other, in some order,
   leaves. *)
C8_Serialized ==
    AllReturned => \E order \in Orders : file = RunInOrder(initial, order, 1)

====
